---------------------------- MODULE Spec2Model ----------------------------
(***************************************************************************)
(* A model of kpi's submission query translation (kpi/utils/mongo_helper.py*)
(* MongoHelper) and of the bulk update of submissions proxied to KoBoCAT   *)
(* (kpi/deployment_backends/kobocat_backend.py).                           *)
(*                                                                         *)
(* Strings that the code inspects character by character (mongo keys) are  *)
(* sequences of symbols.  A symbol is one character ("$", ".", "J", "A",   *)
(* "=", "L", "g", "a") or a lower-case word ("where", "_userform_id", ...) *)
(* standing for that run of characters; words hold none of "$", ".", "J",  *)
(* "L", "=", so a match of '^\$', '\.', '^JA==' or 'Lg==' is a match on    *)
(* symbols.                                                                *)
(***************************************************************************)
EXTENDS Integers, Sequences, FiniteSets, TLC

VARIABLES
    key,        \* KeyCodec: the key handed to encode
    encoded,    \* KeyCodec: encode(key), or NoKey before the call
    decoded,    \* KeyCodec: decode(encoded), or NoKey before the call
    store,              \* the documents of settings.MONGO_DB.instances
    mongo_userform_id,  \* the deployment's scope, as passed by the backend
    hide_deleted,       \* argument hide_deleted
    query,              \* the caller's query dict (changed in place)
    query0,             \* the caller's query as the request gave it
    instance_ids,       \* argument instance_ids, a list of ints
    permission_filters, \* argument permission_filters: None or a list
    fields,             \* the caller's list of fields (changed in place)
    call,               \* the last _get_cursor_and_count call: the query and
                        \* projection handed to find(), the cursor, the count
    permission_filters0, \* permission_filters as the request gave them
    countResult,        \* what get_count returned, NoCall before
    instances,          \* what get_instances returned: cursor, total_count
    qpc,                \* "ready", or "raised" once a call raised
    mapping0,   \* the mapping handed to to_safe_dict(d, reading=False)
    mapping,    \* the mapping as the translator calls have left it
    tpc,        \* "given", "safe", "read", "readable", or "raised"
    payload,        \* json.loads(request_data['payload'][0])
    bpc,            \* bulk_update_submissions: "start", "posting",
                    \* "returned" or "raised"
    error,          \* the exception that left bulk_update_submissions
    fetched,        \* whether __get_submissions_in_xml has read the instances
    data,           \* payload['data'] after __prepare_bulk_update_payload
    submissions,    \* validated_submissions, one XML document each
    kc_responses,   \* the list the loop appends {'uuid', 'response'} to
    posted,         \* what was sent to KoBoCAT, and how each send ended
    response,       \* the dict bulk_update_submissions returned
    requesting_user, \* the acting user: pk, is_anonymous, username
    source_id,      \* duplicate_submission: argument instance_id
    store0,         \* the documents of the store before the duplication
    dpc,            \* duplicate_submission: "start", "posted", "returned"
                    \* or "raised"
    duplicate,      \* what duplicate_submission returned or raised
    tokens,         \* the rows of Token: <<user pk, key>>
    sent,           \* the requests session.send() was given, in order
    kc_response,    \* the last response of KoBoCAT
    method,         \* _kobocat_request: argument method
    gpc,            \* _kobocat_request: "start", "returned" or "raised"
    json_response,  \* what _kobocat_request returned or raised
    xml_params,     \* __get_submissions_in_xml: the keyword arguments
    xpc,            \* __get_submissions_in_xml: "start", "returned", "raised"
    xml_submissions,            \* the XML documents it returned, in order
    current_submissions_count,  \* self.current_submissions_count
    kc_instances,   \* the rows of ReadOnlyKobocatInstance, as KoBoCAT has
                    \* them now
    calls,          \* the concurrent invocations: what each was asked
    cpc,            \* of each invocation: "start", "posting" or "done"
    found_xml,      \* of each invocation: the documents it fetched
    done,           \* of each invocation: how many documents it has posted
    documents       \* every document posted to KoBoCAT, in order

codecVars == <<key, encoded, decoded>>

queryVars == <<store, mongo_userform_id, hide_deleted, query, query0,
               instance_ids, permission_filters, permission_filters0, fields,
               call, countResult, instances, qpc>>

safeVars == <<mapping0, mapping, tpc>>

bulkVars == <<payload, bpc, error, fetched, data, submissions, kc_responses,
              posted, response>>

remoteVars == <<requesting_user, source_id, store0, dpc, duplicate, tokens,
                sent, kc_response, method, gpc, json_response>>

xmlVars == <<xml_params, xpc, xml_submissions, current_submissions_count>>

raceVars == <<kc_instances, calls, cpc, found_xml, done, documents>>

vars == <<codecVars, queryVars, safeVars, bulkVars, remoteVars,
         xmlVars,
         raceVars>>

--------------------------------------------------------------------------
(* Bounds *)

\* longest key (in symbols) handed to encode/decode
MaxKeyLen == 4

\* deepest nesting of mappings and sequences in a caller's query
MaxDepth == 2

\* largest start (skip) of a page
MaxStart == 1

--------------------------------------------------------------------------
(* KeyCodec: MongoHelper.encode / MongoHelper.decode *)

\* the characters a key is drawn from
KeyAlphabet == {"$", ".", "J", "A", "=", "L", "g", "a"}

\* base64_encodestring('$').strip()
TokenDollar == <<"J", "A", "=", "=">>

\* base64_encodestring('.').strip()
TokenDot == <<"L", "g", "=", "=">>

NoKey == <<"<none>">>

\* whether the text `pat` occurs in k at position i
OccursAt(k, pat, i) ==
    /\ i >= 1
    /\ i + Len(pat) - 1 <= Len(k)
    /\ \A j \in 1..Len(pat) : k[i + j - 1] = pat[j]

\* str.startswith
StartsWith(k, pat) == OccursAt(k, pat, 1)

\* str.count(pat) > 0
Contains(k, pat) == \E i \in 1..Len(k) : OccursAt(k, pat, i)

\* re.sub(pat, repl, k) for a literal pattern: every non-overlapping
\* occurrence, leftmost first, is replaced
RECURSIVE SubAll(_, _, _)
SubAll(k, pat, repl) ==
    IF k = <<>> THEN <<>>
    ELSE IF OccursAt(k, pat, 1)
         THEN repl \o SubAll(SubSeq(k, Len(pat) + 1, Len(k)), pat, repl)
         ELSE <<Head(k)>> \o SubAll(Tail(k), pat, repl)

\* re.sub('^' + pat, repl, k): only an occurrence at the start is replaced
SubStart(k, pat, repl) ==
    IF StartsWith(k, pat) THEN repl \o SubSeq(k, Len(pat) + 1, Len(k)) ELSE k

\* ENCODING_SUBSTITUTIONS applied in order: '^\$' -> 'JA==' then '\.' -> 'Lg=='
encode(k) == SubAll(SubStart(k, <<"$">>, TokenDollar), <<".">>, TokenDot)

\* DECODING_SUBSTITUTIONS applied in order: '^JA==' -> '$' then 'Lg==' -> '.'
decode(k) == SubAll(SubStart(k, TokenDollar, <<"$">>), TokenDot, <<".">>)

\* all sequences over S of length at most n
SeqsUpTo(S, n) == UNION {[1..m -> S] : m \in 0..n}

Keys == SeqsUpTo(KeyAlphabet, MaxKeyLen)

\* no call made
NoCall == [t |-> "nocall"]

\* no key is being encoded or decoded
CodecIdle ==
    /\ key = NoKey
    /\ encoded = NoKey
    /\ decoded = NoKey

\* no mapping is being translated
SafeIdle ==
    /\ mapping0 = NoCall
    /\ mapping = NoCall
    /\ tpc = "idle"

\* no bulk update is under way
BulkIdle ==
    /\ payload = NoCall
    /\ bpc = "idle"
    /\ error = NoCall
    /\ fetched = FALSE
    /\ data = NoCall
    /\ submissions = <<>>
    /\ kc_responses = <<>>
    /\ posted = <<>>
    /\ response = NoCall

\* no submission is being duplicated and nothing is sent to KoBoCAT
\* no call of __get_submissions_in_xml on its own is modelled
XmlIdle ==
    /\ xml_params = NoCall
    /\ xpc = "idle"
    /\ xml_submissions = NoCall
    /\ current_submissions_count = NoCall

\* no concurrent invocations are modelled
RaceIdle ==
    /\ kc_instances = <<>>
    /\ calls = <<>>
    /\ cpc = <<>>
    /\ found_xml = <<>>
    /\ done = <<>>
    /\ documents = <<>>

RemoteIdle ==
    /\ requesting_user = NoCall
    /\ source_id = NoCall
    /\ store0 = <<>>
    /\ dpc = "idle"
    /\ duplicate = NoCall
    /\ tokens = <<>>
    /\ sent = <<>>
    /\ kc_response = NoCall
    /\ method = NoCall
    /\ gpc = "idle"
    /\ json_response = NoCall

\* the query translator and the store play no part
QueryIdle ==
    /\ store = <<>>
    /\ mongo_userform_id = NoCall
    /\ hide_deleted = FALSE
    /\ query = NoCall
    /\ query0 = NoCall
    /\ instance_ids = <<>>
    /\ permission_filters = NoCall
    /\ permission_filters0 = NoCall
    /\ fields = <<>>
    /\ call = NoCall
    /\ countResult = NoCall
    /\ instances = NoCall
    /\ qpc = "idle"

InitCodec ==
    /\ RaceIdle
    /\ XmlIdle
    /\ RemoteIdle
    /\ key \in Keys
    /\ encoded = NoKey
    /\ decoded = NoKey
    /\ QueryIdle
    /\ SafeIdle
    /\ BulkIdle

\* a caller encodes a key before it is written to or looked up in the store
Encode ==
    /\ encoded = NoKey
    /\ encoded' = encode(key)
    /\ UNCHANGED <<key, decoded>>
    /\ UNCHANGED <<queryVars, safeVars, bulkVars, remoteVars>>
    /\ UNCHANGED raceVars
    /\ UNCHANGED xmlVars

\* a caller decodes the stored key when a row is returned
Decode ==
    /\ encoded # NoKey
    /\ decoded = NoKey
    /\ decoded' = decode(encoded)
    /\ UNCHANGED <<key, encoded>>
    /\ UNCHANGED <<queryVars, safeVars, bulkVars, remoteVars>>
    /\ UNCHANGED raceVars
    /\ UNCHANGED xmlVars

NextCodec == Encode \/ Decode

SpecCodec == InitCodec /\ [][NextCodec]_vars

--------------------------------------------------------------------------
(* JSON values: queries, documents, payloads *)

\* a str
StrV(s) == [t |-> "str", s |-> s]

\* an int
IntV(n) == [t |-> "int", n |-> n]

\* None
NullV == [t |-> "null"]

\* True / False
BoolV(b) == [t |-> "bool", b |-> b]

\* a dict: its items in insertion order, each <<key, value>>, keys distinct
DictV(items) == [t |-> "dict", items |-> items]

\* a list
ListV(elems) == [t |-> "list", elems |-> elems]

\* an exception left the call
Raised == [t |-> "raised"]

\* list(d.keys())
DictKeys(items) == [i \in DOMAIN items |-> items[i][1]]

\* key in d
DictHas(items, k) == \E i \in DOMAIN items : items[i][1] = k

\* d[key]
DictGet(items, k) == items[CHOOSE i \in DOMAIN items : items[i][1] = k][2]

\* d[key] = v: a present key keeps its place, a new key goes last
DictSet(items, k, v) ==
    IF DictHas(items, k)
    THEN [i \in DOMAIN items |-> IF items[i][1] = k THEN <<k, v>> ELSE items[i]]
    ELSE Append(items, <<k, v>>)

\* del d[key]
DictDel(items, k) == SelectSeq(items, LAMBDA e : e[1] # k)

\* d.update(other)
RECURSIVE DictUpdate(_, _)
DictUpdate(items, other) ==
    IF other = <<>> THEN items
    ELSE DictUpdate(DictSet(items, Head(other)[1], Head(other)[2]), Tail(other))

--------------------------------------------------------------------------
(* QueryTranslator: MongoHelper.to_safe_dict / to_readable_dict *)

KEY_WHITELIST ==
    { <<"$", "or">>, <<"$", "and">>, <<"$", "exists">>, <<"$", "in">>,
      <<"$", "g", "t">>, <<"$", "g", "te">>, <<"$", "lt">>, <<"$", "lte">>,
      <<"$", "regex">>, <<"$", "options">>, <<"$", "all">> }

\* kpi.constants.NESTED_MONGO_RESERVED_ATTRIBUTES
NESTED_MONGO_RESERVED_ATTRIBUTES == { <<"_validation_status">> }

USERFORM_ID == <<"_userform_id">>

KeyId == <<"_id">>

KeyDeletedAt == <<"_deleted_at">>

\* is_attribute_invalid without the test for a leading '$'
is_attribute_invalid_DotOnly(k) ==
    k \notin KEY_WHITELIST /\ Contains(k, <<".">>)

is_attribute_invalid(k) ==
    k \notin KEY_WHITELIST /\ (StartsWith(k, <<"$">>) \/ Contains(k, <<".">>))

_is_attribute_encoded(k) ==
    k \notin KEY_WHITELIST
        /\ (StartsWith(k, TokenDollar) \/ Contains(k, TokenDot))

_is_nested_reserved_attribute(k) ==
    \E r \in NESTED_MONGO_RESERVED_ATTRIBUTES : StartsWith(k, r \o <<".">>)

\* the strings int() accepts, with their values
Numerals == [s \in {"1", "2", "3", "5"} |->
                CASE s = "1" -> 1 [] s = "2" -> 2 [] s = "3" -> 3 [] s = "5" -> 5]

\* int(value) inside try/except ValueError: the converted value, the value
\* itself when ValueError is swallowed, Raised when int() raises TypeError
IntOrSame(v) ==
    CASE v.t = "int" -> v
      [] v.t = "bool" -> IntV(IF v.b THEN 1 ELSE 0)
      [] v.t = "str" -> IF v.s \in DOMAIN Numerals THEN IntV(Numerals[v.s]) ELSE v
      [] OTHER -> Raised

\* key.split(".")
RECURSIVE SplitDots(_)
SplitDots(k) ==
    IF \A i \in 1..Len(k) : k[i] # "."
    THEN <<k>>
    ELSE LET i == CHOOSE j \in 1..Len(k) :
                      k[j] = "." /\ \A h \in 1..(j - 1) : k[h] # "."
         IN  <<SubSeq(k, 1, i - 1)>> \o SplitDots(SubSeq(k, i + 1, Len(k)))

\* the chain of setdefault calls: {parts[1]: {parts[2]: ... {parts[n]: value}}}
RECURSIVE Tree(_, _)
Tree(parts, value) ==
    IF Len(parts) = 1 THEN DictV(<< <<parts[1], value>> >>)
    ELSE DictV(<< <<parts[1], Tree(Tail(parts), value)>> >>)

RECURSIVE to_safe_dict(_, _)
RECURSIVE SafeLoop(_, _, _, _)

\* the value of one item after the first if/elif chain of the loop body
SafeValue(k, v, reading) ==
    IF v.t = "list"
    THEN LET es == [i \in DOMAIN v.elems |->
                       IF v.elems[i].t = "dict"
                       THEN to_safe_dict(v.elems[i], reading)
                       ELSE v.elems[i]]
         IN  IF \E i \in DOMAIN es : es[i] = Raised THEN Raised ELSE ListV(es)
    ELSE IF v.t = "dict" THEN to_safe_dict(v, reading)
    ELSE v

\* One turn of `for key, value in list(d.items())`.  acc.d is the dict as it
\* stands, acc.over the keys an earlier turn assigned (d[encode(key)] = value):
\* the snapshot's value of such a key is no longer in d, so work on it is not
\* seen in d.
SafeTurn(acc, k, reading) ==
    IF k \in acc.over
    THEN acc
    ELSE
    LET v0 == DictGet(acc.d, k)
        v1 == SafeValue(k, v0, reading)
        conv == IF v0.t \notin {"list", "dict"} /\ k = KeyId
                THEN IntOrSame(v0) ELSE v1
        d1 == DictSet(acc.d, k, conv)
    IN  IF v1 = Raised \/ conv = Raised THEN [acc EXCEPT !.raised = TRUE]
        ELSE IF _is_nested_reserved_attribute(k)
        THEN IF ~reading /\ Contains(k, <<".">>)
             THEN LET parts == SplitDots(k)
                      first_part == parts[1]
                      tree == Tree(parts, v1)
                      d2 == DictDel(d1, k)
                      d3 == IF DictHas(d2, first_part) THEN d2
                            ELSE DictSet(d2, first_part, DictV(<<>>))
                      sub == to_safe_dict(DictGet(tree.items, first_part), FALSE)
                      old == DictGet(d3, first_part)
                  IN  IF sub = Raised \/ old.t # "dict"
                      THEN [acc EXCEPT !.raised = TRUE]
                      ELSE [acc EXCEPT !.d = DictSet(d3, first_part,
                                    DictV(DictUpdate(old.items, sub.items)))]
             ELSE [acc EXCEPT !.d = d1]
        ELSE IF is_attribute_invalid(k)
        THEN [acc EXCEPT !.d = DictSet(DictDel(d1, k), encode(k), v1),
                         !.over = @ \cup {encode(k)}]
        ELSE [acc EXCEPT !.d = d1]

SafeLoop(acc, snapshot, i, reading) ==
    IF i > Len(snapshot) \/ acc.raised THEN acc
    ELSE SafeLoop(SafeTurn(acc, snapshot[i], reading), snapshot, i + 1, reading)

\* MongoHelper.to_safe_dict(d, reading): d as the call leaves it (the dict is
\* changed in place and returned), or Raised
to_safe_dict(d, reading) ==
    LET acc == SafeLoop([d |-> d.items, over |-> {}, raised |-> FALSE],
                        DictKeys(d.items), 1, reading)
    IN  IF acc.raised THEN Raised ELSE DictV(acc.d)

RECURSIVE to_readable_dict(_)
RECURSIVE ReadableLoop(_, _, _)

ReadableValue(v) ==
    IF v.t = "list"
    THEN ListV([i \in DOMAIN v.elems |->
                  IF v.elems[i].t = "dict" THEN to_readable_dict(v.elems[i])
                  ELSE v.elems[i]])
    ELSE IF v.t = "dict" THEN to_readable_dict(v)
    ELSE v

ReadableTurn(acc, k) ==
    IF k \in acc.over
    THEN acc
    ELSE
    LET v1 == ReadableValue(DictGet(acc.d, k))
        d1 == DictSet(acc.d, k, v1)
    IN  IF _is_attribute_encoded(k)
        THEN [acc EXCEPT !.d = DictSet(DictDel(d1, k), decode(k), v1),
                         !.over = @ \cup {decode(k)}]
        ELSE [acc EXCEPT !.d = d1]

ReadableLoop(acc, snapshot, i) ==
    IF i > Len(snapshot) THEN acc
    ELSE ReadableLoop(ReadableTurn(acc, snapshot[i]), snapshot, i + 1)

\* MongoHelper.to_readable_dict(d)
to_readable_dict(d) ==
    DictV(ReadableLoop([d |-> d.items, over |-> {}], DictKeys(d.items), 1).d)

--------------------------------------------------------------------------
(* The document store: settings.MONGO_DB.instances.find(query, projection) *)

\* the value a document holds at a (possibly dotted) field path
RECURSIVE LookupParts(_, _)
LookupParts(doc, parts) ==
    IF doc.t # "dict" \/ ~DictHas(doc.items, parts[1])
    THEN [found |-> FALSE, v |-> NullV]
    ELSE IF Len(parts) = 1
         THEN [found |-> TRUE, v |-> DictGet(doc.items, parts[1])]
         ELSE LookupParts(DictGet(doc.items, parts[1]), Tail(parts))

Lookup(doc, k) == LookupParts(doc, SplitDots(k))

\* the query operators the store is asked to evaluate in this model
OpOr == <<"$", "or">>

OpAnd == <<"$", "and">>

OpIn == <<"$", "in">>

OpExists == <<"$", "exists">>

\* a predicate value that is an operator expression, such as {'$in': [...]}
IsOperatorExpr(v) ==
    v.t = "dict" /\ v.items # <<>> /\ StartsWith(v.items[1][1], <<"$">>)

\* whether the store accepts the query; it rejects an unknown operator, and
\* a '$or' / '$and' whose operand is not a non-empty list of documents
RECURSIVE ValidQuery(_)
ValidQuery(q) ==
    \A i \in DOMAIN q.items :
        LET k == q.items[i][1]
            v == q.items[i][2]
        IN  IF k \in {OpOr, OpAnd}
            THEN /\ v.t = "list"
                 /\ v.elems # <<>>
                 /\ \A j \in DOMAIN v.elems :
                        v.elems[j].t = "dict" /\ ValidQuery(v.elems[j])
            ELSE IF StartsWith(k, <<"$">>) THEN FALSE
            ELSE IsOperatorExpr(v) =>
                    \A j \in DOMAIN v.items :
                        \/ v.items[j][1] = OpIn /\ v.items[j][2].t = "list"
                        \/ v.items[j][1] = OpExists /\ v.items[j][2].t = "bool"

\* one field predicate against one document
MatchPred(doc, k, v) ==
    LET f == Lookup(doc, k)
    IN  IF IsOperatorExpr(v)
        THEN \A j \in DOMAIN v.items :
                LET op == v.items[j][1]
                    arg == v.items[j][2]
                IN  IF op = OpIn
                    THEN \E e \in DOMAIN arg.elems :
                            IF f.found THEN arg.elems[e] = f.v
                            ELSE arg.elems[e] = NullV
                    ELSE f.found = arg.b
        ELSE IF v = NullV THEN ~f.found \/ f.v = NullV
        ELSE f.found /\ f.v = v

\* whether a document matches an accepted query: every entry must hold
RECURSIVE Matches(_, _)
Matches(doc, q) ==
    \A i \in DOMAIN q.items :
        LET k == q.items[i][1]
            v == q.items[i][2]
        IN  IF k = OpOr THEN \E j \in DOMAIN v.elems : Matches(doc, v.elems[j])
            ELSE IF k = OpAnd
            THEN \A j \in DOMAIN v.elems : Matches(doc, v.elems[j])
            ELSE MatchPred(doc, k, v)

\* cursor = find(query, ...): the matching documents in natural order, or
\* Raised when the store rejects the query
Find(rows, q) ==
    IF ~ValidQuery(q) THEN Raised
    ELSE ListV(SelectSeq(rows, LAMBDA doc : Matches(doc, q)))

\* the projection applied to one returned document: an inclusion list keeps
\* the listed fields and '_id', the exclusion {field: 0} drops that field
Project(doc, projection) ==
    LET excl == \E i \in DOMAIN projection.items : projection.items[i][2] = IntV(0)
    IN  DictV(SelectSeq(doc.items, LAMBDA e :
            IF excl THEN ~DictHas(projection.items, e[1])
            ELSE e[1] = KeyId \/ DictHas(projection.items, e[1])))

--------------------------------------------------------------------------
(* SubmissionStore: MongoHelper._get_cursor_and_count, get_count,          *)
(* get_instances                                                           *)

\* deleted_at_query without its second alternative
deleted_at_query_ExistsOnly ==
    DictV(<< <<OpOr, ListV(<<
        DictV(<< <<KeyDeletedAt, DictV(<< <<OpExists, BoolV(FALSE)>> >>)>> >>)
        >>)>> >>)

\* {'$or': [{'_deleted_at': {'$exists': False}}, {'_deleted_at': None}]}
deleted_at_query ==
    DictV(<< <<OpOr, ListV(<<
        DictV(<< <<KeyDeletedAt, DictV(<< <<OpExists, BoolV(FALSE)>> >>)>> >>),
        DictV(<< <<KeyDeletedAt, NullV>> >>) >>)>> >>)

\* {'$and': [a, b]}
AndQuery(a, b) == DictV(<< <<OpAnd, ListV(<<a, b>>)>> >>)

\* BuiltQuery with query.setdefault(USERFORM_ID, ...) in place of the update
BuiltQuery_SetDefault(uf, hide, q, ids, pf) ==
    LET q1 == IF Len(ids) > 0
              THEN DictSet(q.items, KeyId, DictV(<< <<OpIn, ListV(ids)>> >>))
              ELSE q.items
        q2 == DictV(IF DictHas(q1, USERFORM_ID) THEN q1
                    ELSE DictSet(q1, USERFORM_ID, uf))
        q3 == IF pf # NullV
              THEN AndQuery(q2, DictV(<< <<OpOr, ListV(pf.elems)>> >>))
              ELSE q2
    IN  IF hide THEN AndQuery(q3, deleted_at_query) ELSE q3

\* the query as built before to_safe_dict: the two update() calls on the
\* caller's dict, then the permission and the deleted_at wrappers
BuiltQuery(uf, hide, q, ids, pf) ==
    LET q1 == IF Len(ids) > 0
              THEN DictSet(q.items, KeyId, DictV(<< <<OpIn, ListV(ids)>> >>))
              ELSE q.items
        q2 == DictV(DictSet(q1, USERFORM_ID, uf))
        q3 == IF pf # NullV
              THEN AndQuery(q2, DictV(<< <<OpOr, ListV(pf.elems)>> >>))
              ELSE q2
    IN  IF hide THEN AndQuery(q3, deleted_at_query) ELSE q3

\* fields.remove(cls.USERFORM_ID): the first occurrence goes
RemoveFirst(fs, f) ==
    LET i == CHOOSE j \in DOMAIN fs : fs[j] = f /\ \A h \in 1..(j - 1) : fs[h] # f
    IN  SubSeq(fs, 1, i - 1) \o SubSeq(fs, i + 1, Len(fs))

\* the caller's list of fields after the call
FieldsAfter(fs) ==
    IF Len(fs) > 0 /\ \E i \in DOMAIN fs : fs[i] = USERFORM_ID
    THEN RemoveFirst(fs, USERFORM_ID) ELSE fs

\* dict([(cls.encode(field), 1) for field in fields])
RECURSIVE SelectDict(_)
SelectDict(fs) ==
    IF fs = <<>> THEN <<>>
    ELSE DictSet(SelectDict(SubSeq(fs, 1, Len(fs) - 1)),
                 encode(fs[Len(fs)]), IntV(1))

fields_to_select(fs) ==
    IF Len(fs) > 0 THEN DictV(SelectDict(FieldsAfter(fs)))
    ELSE DictV(<< <<USERFORM_ID, IntV(0)>> >>)

\* the first operand of {'$and': [a, b]}
FirstOperand(q) == q.items[1][2].elems[1]

\* what _get_cursor_and_count leaves and returns once find(safe, ...) has
\* returned cursor
CountedCursor(hide, fs, pf, safe, cursor) ==
    LET ok == safe # Raised
        q3 == IF hide THEN FirstOperand(safe) ELSE safe
        q2 == IF pf # NullV THEN FirstOperand(q3) ELSE q3
    IN  [ raised |-> cursor = Raised,
          query |-> safe,
          projection |-> fields_to_select(fs),
          cursor |-> cursor,
          count |-> IF cursor = Raised THEN NoCall ELSE IntV(Len(cursor.elems)),
          caller_query |-> IF ok THEN q2 ELSE Raised,
          caller_filters |->
              IF ok /\ pf # NullV THEN q3.items[1][2].elems[2].items[1][2]
              ELSE pf,
          caller_fields |-> IF ok THEN FieldsAfter(fs) ELSE fs ]

\* _get_cursor_and_count from the query that to_safe_dict returned on
CursorAndCount(rows, hide, fs, pf, safe) ==
    CountedCursor(hide, fs, pf, safe,
                  IF safe # Raised THEN Find(rows, safe) ELSE Raised)

\* MongoHelper._get_cursor_and_count.  query: what find() is given; cursor:
\* the matching documents; count: cursor.count(), which ignores skip and
\* limit; caller_query, caller_filters, caller_fields: the caller's objects
\* as the call leaves them; raised: an exception left the call.
_get_cursor_and_count(rows, uf, hide, fs, q, ids, pf) ==
    CursorAndCount(rows, hide, fs, pf,
                   to_safe_dict(BuiltQuery(uf, hide, q, ids, pf), TRUE))

\* cursor.sort(sort_key, sort_dir) on an int field; documents without the
\* field come first
SortRows(rows, sort_key, sort_dir) ==
    LET rank(doc) == LET f == Lookup(doc, sort_key)
                     IN  IF f.found /\ f.v.t = "int" THEN f.v.n ELSE 0
    IN  SortSeq(rows, LAMBDA a, b :
            IF sort_dir >= 0 THEN rank(a) < rank(b) ELSE rank(a) > rank(b))

\* cursor.sort(sort_key, sort_dir) with the key and direction of the sort
\* dict that to_safe_dict returned
SortedBy(rows, safe) == SortRows(rows, safe.items[1][1], safe.items[1][2].n)

\* cursor.skip(start) and cursor.limit(limit) on the sorted documents, and
\* the projection
PageOf(sorted, projection, start, limit) ==
    LET last == IF limit = NullV \/ limit.n = 0 THEN Len(sorted)
                ELSE IF start + limit.n < Len(sorted) THEN start + limit.n
                ELSE Len(sorted)
    IN  ListV([i \in 1..(last - start) |->
                  Project(sorted[start + i], projection)])

\* the documents the cursor yields after skip(start), limit(limit), sort(...)
CursorRows(rows, projection, start, limit, sort) ==
    PageOf(IF Len(sort.items) = 1
           THEN SortedBy(rows, to_safe_dict(sort, TRUE))
           ELSE rows,
           projection, start, limit)

\* get_instances with the count taken after skip and limit were set
get_instances_PageCount(c, start, limit, sort) ==
    LET rows == CursorRows(c.cursor.elems, c.projection, start, limit, sort)
    IN  [ cursor |-> rows, total_count |-> IntV(Len(rows.elems)) ]

\* what MongoHelper.get_instances returns after _get_cursor_and_count
\* returned c: the cursor with skip, limit and sort set, and the total_count
\* taken before they were
get_instances(c, start, limit, sort) ==
    [ cursor |-> CursorRows(c.cursor.elems, c.projection, start, limit, sort),
      total_count |-> c.count ]

--------------------------------------------------------------------------
(* The requests of the model: stored documents and callers' arguments *)

KeyWhere == <<"$", "where">>

KeySubmittedBy == <<"_submitted_by">>

\* a question named 'a.b', stored under its encoded name
KeyAB == <<"a", ".", "b">>

\* this deployment's and another deployment's _userform_id
ThisForm == StrV("someuser_form")

OtherForm == StrV("otheruser_form")

\* a stored submission; deleted is "absent", "null" or "set"
Row(id, form, by, deleted, ab) ==
    DictV(<< <<KeyId, IntV(id)>>, <<USERFORM_ID, form>>,
             <<KeySubmittedBy, StrV(by)>> >>
          \o (IF deleted = "absent" THEN <<>>
              ELSE << <<KeyDeletedAt,
                        IF deleted = "null" THEN NullV ELSE StrV("2020-01-01")>> >>)
          \o (IF ab THEN << <<encode(KeyAB), StrV("x")>> >> ELSE <<>>))

\* submissions of both deployments, by two submitters, in each state of
\* _deleted_at
StoredRows ==
    << Row(1, ThisForm, "someuser", "absent", TRUE),
       Row(2, ThisForm, "anotheruser", "absent", FALSE),
       Row(3, ThisForm, "someuser", "null", FALSE),
       Row(4, ThisForm, "anotheruser", "set", TRUE),
       Row(5, ThisForm, "someuser", "set", FALSE),
       Row(6, OtherForm, "someuser", "absent", TRUE),
       Row(7, OtherForm, "anotheruser", "null", FALSE),
       Row(8, OtherForm, "someuser", "set", FALSE) >>

\* one-entry mappings a caller's query is built from
LeafClauses ==
    { DictV(<< <<USERFORM_ID, OtherForm>> >>),
      DictV(<< <<KeyId, StrV("2")>> >>),
      DictV(<< <<KeyWhere, StrV("x")>> >>),
      DictV(<< <<KeySubmittedBy, StrV("someuser")>> >>),
      DictV(<< <<KeyAB, StrV("x")>> >>) }

\* keys under which a caller nests a mapping or a sequence of mappings
NestKeys == {OpOr, OpAnd}

\* one-entry mappings nested up to depth d
RECURSIVE Clauses(_)
Clauses(d) ==
    IF d = 0 THEN LeafClauses
    ELSE LET C == Clauses(d - 1)
         IN  C \cup { DictV(<< <<k, ListV(<<c>>)>> >>) : k \in NestKeys, c \in C }
               \cup { DictV(<< <<KeyWhere, c>> >>) : c \in C }

\* the queries callers send: empty, one entry nested up to MaxDepth, a
\* sequence of two mappings, or two entries with distinct keys
Queries ==
    LET TwoEntries(c1, c2) ==
            IF c1.items[1][1] = c2.items[1][1] THEN {}
            ELSE { DictV(c1.items \o c2.items), DictV(c2.items \o c1.items) }
    IN
    {DictV(<<>>)}
      \cup Clauses(MaxDepth)
      \cup { DictV(<< <<OpOr, ListV(<<c1, c2>>)>> >>) :
                c1 \in LeafClauses, c2 \in LeafClauses }
      \cup UNION { TwoEntries(c1, c2) : c1 \in LeafClauses, c2 \in LeafClauses }

\* instance_ids as validate_submission_list_params hands them over
InstanceIdLists == { <<>>, <<IntV(1), IntV(3), IntV(4), IntV(6)>> }

\* permission_filters: None (full access), or the partial-permission filters
PermissionFilterLists ==
    { NullV,
      ListV(<<>>),
      ListV(<< DictV(<< <<KeySubmittedBy, StrV("someuser")>> >>),
               DictV(<< <<KeySubmittedBy, StrV("nobody")>> >>) >>),
      ListV(<< DictV(<< <<KeySubmittedBy, StrV("nobody")>> >>) >>) }

\* the field lists callers pass to get_instances
FieldLists == { <<>>, <<KeyAB, USERFORM_ID>>, <<USERFORM_ID, KeyId, USERFORM_ID>> }

\* the sort arguments callers pass to get_instances
Sorts == { DictV(<<>>), DictV(<< <<KeyId, IntV(-1)>> >>) }

\* the limit arguments: None, or a page size
Limits == {NullV, IntV(1)}

InitQuery ==
    /\ RaceIdle
    /\ XmlIdle
    /\ CodecIdle
    /\ RemoteIdle
    /\ SafeIdle
    /\ BulkIdle
    /\ store = StoredRows
    /\ mongo_userform_id = ThisForm
    /\ hide_deleted \in BOOLEAN
    /\ query0 \in Queries
    /\ query = query0
    /\ instance_ids \in InstanceIdLists
    /\ permission_filters0 \in PermissionFilterLists
    /\ permission_filters = permission_filters0
    /\ fields \in FieldLists
    /\ call = NoCall
    /\ countResult = NoCall
    /\ instances = NoCall
    /\ qpc = "ready"

\* MongoHelper.get_count(mongo_userform_id, hide_deleted, query,
\* instance_ids, permission_filters): fields is {'_id': 1}
GetCount ==
    /\ qpc = "ready"
    /\ call' = _get_cursor_and_count(store, mongo_userform_id, hide_deleted,
                   <<KeyId>>, query, instance_ids, permission_filters)
    /\ query' = call'.caller_query
    /\ permission_filters' = call'.caller_filters
    /\ countResult' = call'.count
    /\ qpc' = IF call'.raised THEN "raised" ELSE "ready"
    /\ UNCHANGED <<store, mongo_userform_id, hide_deleted, query0,
                   permission_filters0, instance_ids, fields, instances>>
    /\ UNCHANGED <<codecVars, safeVars, bulkVars, remoteVars>>
    /\ UNCHANGED raceVars
    /\ UNCHANGED xmlVars

\* MongoHelper.get_instances(mongo_userform_id, hide_deleted, start, limit,
\* sort, fields, query, instance_ids, permission_filters)
GetInstances ==
    /\ qpc = "ready"
    /\ call' = _get_cursor_and_count(store, mongo_userform_id, hide_deleted,
                   fields, query, instance_ids, permission_filters)
    /\ query' = call'.caller_query
    /\ permission_filters' = call'.caller_filters
    /\ fields' = call'.caller_fields
    /\ qpc' = IF call'.raised THEN "raised" ELSE "ready"
    /\ \E start \in 0..MaxStart, limit \in Limits, sort \in Sorts :
          instances' = IF call'.raised THEN NoCall
                       ELSE get_instances(call', start, limit, sort)
    /\ UNCHANGED <<store, mongo_userform_id, hide_deleted, query0,
                   permission_filters0, instance_ids, countResult>>
    /\ UNCHANGED <<codecVars, safeVars, bulkVars, remoteVars>>
    /\ UNCHANGED raceVars
    /\ UNCHANGED xmlVars

NextQuery == GetCount \/ GetInstances

SpecQuery == InitQuery /\ [][NextQuery]_vars

--------------------------------------------------------------------------
(* C1 *)

\* C1: for every key k, including keys that themselves hold the token text
\* 'JA==' or 'Lg==', decode(encode(k)) = k.
C1_RoundTrip == decoded # NoKey => decoded = key

--------------------------------------------------------------------------
(* C2 .. C6: the query handed to the store and the rows it matches *)

\* the keys of every mapping inside a value, at any depth
RECURSIVE AllKeys(_)
AllKeys(v) ==
    IF v.t = "dict"
    THEN { v.items[i][1] : i \in DOMAIN v.items }
            \cup UNION { AllKeys(v.items[i][2]) : i \in DOMAIN v.items }
    ELSE IF v.t = "list"
    THEN UNION { AllKeys(v.elems[i]) : i \in DOMAIN v.elems }
    ELSE {}

\* the keys of a mapping that lie below its top level
NestedKeys(d) == UNION { AllKeys(d.items[i][2]) : i \in DOMAIN d.items }

\* a call has handed a query to the store and the store has answered
Answered == call # NoCall /\ ~call.raised

\* the stored rows the answered call matched
MatchedRows == { call.cursor.elems[i] : i \in DOMAIN call.cursor.elems }

\* C2: in the query _get_cursor_and_count hands to the store, no key at any
\* nesting depth begins with '$' unless it is on the operator whitelist;
\* a '$where' the caller supplied is there in its encoded form.
C2_NoLiveOperator ==
    (call # NoCall /\ call.query # Raised) =>
        /\ \A k \in AllKeys(call.query) :
              StartsWith(k, <<"$">>) => k \in KEY_WHITELIST
        /\ KeyWhere \in AllKeys(query0) =>
              encode(KeyWhere) \in AllKeys(call.query)

\* a '$where' below the top level of the caller's query reached the store
\* encoded
C2_Witness ==
    /\ Answered
    /\ KeyWhere \in NestedKeys(query0)
    /\ ~DictHas(query0.items, KeyWhere)
    /\ encode(KeyWhere) \in NestedKeys(call.query)

\* C3: every row a call matches carries this deployment's _userform_id,
\* whatever the caller's query holds, a '_userform_id' predicate of its own
\* at top level or inside '$or' / '$and' included.
C3_TenantScope ==
    Answered =>
        \A r \in MatchedRows :
            LET f == Lookup(r, USERFORM_ID)
            IN  f.found /\ f.v = mongo_userform_id

\* the caller asked for another deployment's rows at top level and rows
\* were matched
C3_Witness ==
    /\ Answered
    /\ DictHas(query0.items, USERFORM_ID)
    /\ DictGet(query0.items, USERFORM_ID) = OtherForm
    /\ MatchedRows # {}

\* the caller's query as the store reads it: its keys made safe
CallerQuery == to_safe_dict(query0, TRUE)

\* C4: with permission_filters supplied (not None), every matched row
\* satisfies the caller's query and carries this deployment's _userform_id
\* and satisfies at least one permission filter; when no filter matches any
\* stored row, no row is matched.
C4_PermissionFiltered ==
    (Answered /\ permission_filters0 # NullV) =>
        /\ \A r \in MatchedRows :
              /\ Matches(r, CallerQuery)
              /\ Lookup(r, USERFORM_ID).v = mongo_userform_id
              /\ \E i \in DOMAIN permission_filters.elems :
                    Matches(r, permission_filters.elems[i])
        /\ (\A j \in DOMAIN store, i \in DOMAIN permission_filters.elems :
                ~Matches(store[j], permission_filters.elems[i]))
              => MatchedRows = {}

\* C5: on the unchanged store and for the same arguments, the total_count
\* get_instances returns equals what get_count returns, whatever start,
\* limit, sort and fields are.
C5_TotalIsCount ==
    (countResult # NoCall /\ instances # NoCall) =>
        instances.total_count = countResult

\* both calls were made and the page get_instances returned is shorter
\* than the total
C5_Witness ==
    /\ countResult # NoCall
    /\ instances # NoCall
    /\ countResult.n >= 2
    /\ Len(instances.cursor.elems) < countResult.n

\* _deleted_at is present and not null
SoftDeleted(r) ==
    LET f == Lookup(r, KeyDeletedAt) IN f.found /\ f.v # NullV

\* the states of _deleted_at: absent, null, or a date
DeletedStates == {"absent", "null", "set"}

\* a row with its _deleted_at put in the given state
WithDeletedAt(r, d) ==
    LET rest == DictDel(r.items, KeyDeletedAt)
    IN  DictV(IF d = "absent" THEN rest
              ELSE Append(rest, <<KeyDeletedAt,
                     IF d = "null" THEN NullV ELSE StrV("2020-01-01")>>))

\* the rows the same arguments match when hide_deleted is False
BaseRows ==
    LET q == to_safe_dict(BuiltQuery(mongo_userform_id, FALSE, query0,
                                     instance_ids, permission_filters0), TRUE)
        c == IF q = Raised THEN Raised ELSE Find(store, q)
    IN  IF c = Raised THEN {} ELSE { c.elems[i] : i \in DOMAIN c.elems }

\* C6: with hide_deleted=True no row whose _deleted_at is present and not
\* null is matched, and the rows whose _deleted_at is absent or null are
\* matched as they are without the flag; with hide_deleted=False whether a
\* row is matched does not depend on its _deleted_at.
C6_HideDeleted ==
    Answered =>
        IF hide_deleted
        THEN /\ \A r \in MatchedRows : ~SoftDeleted(r)
             /\ \A r \in BaseRows : ~SoftDeleted(r) => r \in MatchedRows
        ELSE \A i \in DOMAIN store, d \in DeletedStates :
                Matches(WithDeletedAt(store[i], d), call.query)
                    = (store[i] \in MatchedRows)

\* hide_deleted=True matched a row without _deleted_at and a row whose
\* _deleted_at is null, and left out a row that is deleted
C6_Witness ==
    /\ Answered
    /\ hide_deleted
    /\ \E r \in MatchedRows : ~Lookup(r, KeyDeletedAt).found
    /\ \E r \in MatchedRows : Lookup(r, KeyDeletedAt).found
    /\ \E r \in BaseRows : SoftDeleted(r)

--------------------------------------------------------------------------
(* The translator called for writing and then for reading back *)

\* keys of the mappings handed to to_safe_dict: operator-like, dotted, plain,
\* the identity field, a nested reserved attribute, and keys whose own text
\* holds 'Lg==' or starts with 'JA=='
TranslatedKeys ==
    { KeyWhere, KeyAB, <<"x">>, KeyId,
      <<"_validation_status", ".", "uid">>,
      <<"a">> \o TokenDot \o <<"b">>,
      TokenDollar \o <<"a">> }

\* the scalar values of those mappings
TranslatedScalars == { StrV("x"), StrV("5"), IntV(7) }

\* one-entry mappings with a scalar value
ScalarEntries ==
    { DictV(<< <<k, v>> >>) : k \in TranslatedKeys, v \in TranslatedScalars }

\* the mappings handed to to_safe_dict: one scalar entry, two scalar entries
\* with distinct keys, a nested mapping, or a sequence of mappings
TranslatedDicts ==
    ScalarEntries
      \cup { DictV(a.items \o b.items) :
                a \in ScalarEntries,
                b \in { e \in ScalarEntries : e.items[1][2] = StrV("x") } }
      \cup { DictV(<< <<k, e>> >>) :
                k \in {KeyWhere, KeyAB, <<"x">>}, e \in ScalarEntries }
      \cup { DictV(<< <<k, ListV(<<e, DictV(<< <<KeyAB, StrV("x")>> >>)>>)>> >>) :
                k \in {KeyWhere, KeyAB, <<"x">>}, e \in ScalarEntries }

\* mappings with several nested reserved attributes: the example of the
\* docstring of to_safe_dict, two attributes under one common prefix, and an
\* attribute next to the mapping it belongs to
ReservedDicts ==
    { DictV(<< <<<<"_validation_status", ".", "other", ".", "nested">>,
                 StrV("lorem")>>,
               <<<<"_validation_status", ".", "uid">>, StrV("approved")>>,
               <<<<"my", ".", "string">>, StrV("yes")>> >>),
      DictV(<< <<<<"_validation_status", ".", "other", ".", "a">>, StrV("x")>>,
               <<<<"_validation_status", ".", "other", ".", "b">>, StrV("5")>> >>),
      DictV(<< <<<<"_validation_status">>,
                 DictV(<< <<<<"by_whom">>, StrV("someuser")>> >>)>>,
               <<<<"_validation_status", ".", "uid">>, StrV("approved")>> >>) }

\* the keys of a mapping are distinct
DistinctKeys(d) ==
    \A i, j \in DOMAIN d.items : d.items[i][1] = d.items[j][1] => i = j

InitSafe ==
    /\ RaceIdle
    /\ XmlIdle
    /\ CodecIdle
    /\ RemoteIdle
    /\ QueryIdle
    /\ BulkIdle
    /\ mapping0 \in { d \in TranslatedDicts : DistinctKeys(d) } \cup ReservedDicts
    /\ mapping = mapping0
    /\ tpc = "given"

\* MongoHelper.to_safe_dict(d, reading=False), before a document is stored
ToSafeDict ==
    /\ tpc = "given"
    /\ mapping' = to_safe_dict(mapping, FALSE)
    /\ tpc' = IF mapping' = Raised THEN "raised" ELSE "safe"
    /\ UNCHANGED mapping0
    /\ UNCHANGED <<codecVars, queryVars, bulkVars, remoteVars>>
    /\ UNCHANGED raceVars
    /\ UNCHANGED xmlVars

\* MongoHelper.to_safe_dict(d, reading=True), on a mapping used as a query
ToSafeDictReading ==
    /\ tpc = "given"
    /\ mapping' = to_safe_dict(mapping, TRUE)
    /\ tpc' = IF mapping' = Raised THEN "raised" ELSE "read"
    /\ UNCHANGED mapping0
    /\ UNCHANGED <<codecVars, queryVars, bulkVars, remoteVars>>
    /\ UNCHANGED raceVars
    /\ UNCHANGED xmlVars

\* MongoHelper.to_readable_dict(d), when the stored document is returned
ToReadableDict ==
    /\ tpc = "safe"
    /\ mapping' = to_readable_dict(mapping)
    /\ tpc' = "readable"
    /\ UNCHANGED mapping0
    /\ UNCHANGED <<codecVars, queryVars, bulkVars, remoteVars>>
    /\ UNCHANGED raceVars
    /\ UNCHANGED xmlVars

NextSafe == ToSafeDict \/ ToSafeDictReading \/ ToReadableDict

SpecSafe == InitSafe /\ [][NextSafe]_vars

\* the keys of a mapping that are no nested reserved attribute
NonReservedKeys(d) ==
    { d.items[i][1] : i \in { j \in DOMAIN d.items :
                                ~_is_nested_reserved_attribute(d.items[j][1]) } }

\* the keys under which to_safe_dict gathers the nested reserved attributes
\* of a mapping
ReservedRoots(d) ==
    { SplitDots(d.items[i][1])[1] :
        i \in { j \in DOMAIN d.items :
                  _is_nested_reserved_attribute(d.items[j][1]) } }

\* whether b holds, at every level, exactly the non-reserved keys of a with
\* the values they have in a
RECURSIVE Restored(_, _)
Restored(a, b) ==
    IF a.t = "dict"
    THEN /\ b.t = "dict"
         /\ DistinctKeys(b)
         /\ { k \in { b.items[i][1] : i \in DOMAIN b.items } :
                 k \notin ReservedRoots(a) } = NonReservedKeys(a)
         /\ \A k \in NonReservedKeys(a) :
                DictHas(b.items, k)
                    /\ Restored(DictGet(a.items, k), DictGet(b.items, k))
    ELSE IF a.t = "list"
    THEN /\ b.t = "list"
         /\ Len(b.elems) = Len(a.elems)
         /\ \A i \in DOMAIN a.elems : Restored(a.elems[i], b.elems[i])
    ELSE b = a

\* C7: for every mapping q, to_readable_dict(to_safe_dict(q, reading=False))
\* has at every level exactly the non-reserved keys of q, each in its
\* original spelling and with its original value; none is lost or merged.
C7_RoundTrip == tpc = "readable" => Restored(mapping0, mapping)

--------------------------------------------------------------------------
(* XML documents: xml.etree.ElementTree as bulk_update_submissions uses it *)

\* an element: its tag, its text, its children in document order
Element(tag, text, children) ==
    [tag |-> tag, text |-> text, children |-> children]

\* what find() returns when nothing matches (None)
NotFound == <<0>>

\* key.split('/')
RECURSIVE SplitSlash(_)
SplitSlash(k) ==
    IF \A i \in 1..Len(k) : k[i] # "/"
    THEN <<k>>
    ELSE LET i == CHOOSE j \in 1..Len(k) :
                      k[j] = "/" /\ \A h \in 1..(j - 1) : k[h] # "/"
         IN  <<SubSeq(k, 1, i - 1)>> \o SplitSlash(SubSeq(k, i + 1, Len(k)))

\* the namespace wildcard of ElementPath: '{*}name' selects the elements
\* named name in any namespace or in none
AnyNamespace == "{*}"

\* the name of a tag without its namespace
LocalName(tag) ==
    IF Len(tag) > 1 /\ tag[1] = AnyNamespace THEN Tail(tag) ELSE tag

\* whether a step of a path selects an element with this tag
TagMatches(tag, part) ==
    IF Len(part) > 1 /\ part[1] = AnyNamespace
    THEN LocalName(tag) = Tail(part)
    ELSE tag = part

\* the search of find() among the children of e from the i-th on: the place
\* (child indexes to follow from e) of the first element in document order
\* that the path of tags leads to
RECURSIVE FindFrom(_, _, _)
FindFrom(e, parts, i) ==
    IF i > Len(e.children) THEN NotFound
    ELSE LET c == e.children[i]
         IN  IF ~TagMatches(c.tag, parts[1]) THEN FindFrom(e, parts, i + 1)
             ELSE IF Len(parts) = 1 THEN <<i>>
             ELSE LET sub == FindFrom(c, Tail(parts), 1)
                  IN  IF sub = NotFound THEN FindFrom(e, parts, i + 1)
                      ELSE <<i>> \o sub

\* Element.find('a/b/...')
find(e, parts) == FindFrom(e, parts, 1)

\* the element at a place
RECURSIVE ElementAt(_, _)
ElementAt(e, place) ==
    IF place = <<>> THEN e
    ELSE ElementAt(e.children[Head(place)], Tail(place))

\* element.text = text, for the element at a place
RECURSIVE SetText(_, _, _)
SetText(e, place, text) ==
    IF place = <<>> THEN [e EXCEPT !.text = text]
    ELSE [e EXCEPT !.children[Head(place)] = SetText(@, Tail(place), text)]

\* ET.SubElement(parent, tag), parent being the element at a place: a new
\* last child without text
RECURSIVE SubElement(_, _, _)
SubElement(e, place, tag) ==
    IF place = <<>>
    THEN [e EXCEPT !.children = Append(@, Element(tag, NullV, <<>>))]
    ELSE [e EXCEPT !.children[Head(place)] = SubElement(@, Tail(place), tag)]

\* the loop over enumerate(k.split('/')): one element per segment, the
\* first under the root, each next one under what find() returns for the
\* segments before it
RECURSIVE AttachPath(_, _, _)
AttachPath(root, parts, i) ==
    IF i > Len(parts) THEN root
    ELSE IF i = 1 THEN AttachPath(SubElement(root, <<>>, parts[1]), parts, 2)
    ELSE AttachPath(
            SubElement(root, find(root, SubSeq(parts, 1, i - 1)), parts[i]),
            parts, i + 1)

\* one turn of `for k, v in payload['data'].items()`
UpdateField(root, k, v) ==
    LET parts == SplitSlash(k)
        r1 == IF Len(parts) > 1 THEN AttachPath(root, parts, 1) ELSE root
        element_to_update == find(r1, parts)
        r2 == IF element_to_update # NotFound THEN r1
              ELSE SubElement(r1, <<>>, k)
        place == IF element_to_update # NotFound THEN element_to_update
                 ELSE <<Len(r2.children)>>
    IN  SetText(r2, place, v)

RECURSIVE UpdateFields(_, _)
UpdateFields(root, items) ==
    IF items = <<>> THEN root
    ELSE UpdateFields(UpdateField(root, Head(items)[1], Head(items)[2]),
                      Tail(items))

\* f'uuid:{_uuid}'
Formatted(u) == [t |-> "str", s |-> u, prefix |-> "uuid:"]

\* the document the loop body builds from one fetched submission: the old
\* instanceID goes to meta/deprecatedID, the new one to meta/instanceID, then
\* the fields of the payload are set.  Raised when meta/instanceID or meta
\* is missing (AttributeError, TypeError).
UpdatedSubmission(xml_parsed, uuid_formatted, fields_to_set) ==
    LET instance_id == find(xml_parsed, << <<"meta">>, <<"instanceID">> >>)
        deprecated_id == find(xml_parsed, << <<"meta">>, <<"deprecatedID">> >>)
        meta == find(xml_parsed, << <<"meta">> >>)
    IN  IF instance_id = NotFound \/ meta = NotFound THEN Raised
        ELSE
        LET x1 == IF deprecated_id # NotFound THEN xml_parsed
                  ELSE SubElement(xml_parsed, meta, <<"deprecatedID">>)
            deprecated_id_or_new ==
                  IF deprecated_id # NotFound THEN deprecated_id
                  ELSE meta \o <<Len(ElementAt(x1, meta).children)>>
            x2 == SetText(x1, deprecated_id_or_new,
                          ElementAt(xml_parsed, instance_id).text)
            x3 == SetText(x2, instance_id, uuid_formatted)
        IN  UpdateFields(x3, fields_to_set.items)

--------------------------------------------------------------------------
(* MutationEngine: KobocatDeploymentBackend.bulk_update_submissions *)

KeySubmissionIds == <<"submission_ids">>

KeyData == <<"data">>

PROTECTED_XML_FIELDS == { <<"__version__">>, <<"formhub">>, <<"meta">> }

\* status.HTTP_200_OK
HTTP_200_OK == 200

\* status.HTTP_201_CREATED
HTTP_201_CREATED == 201

\* status.HTTP_400_BAD_REQUEST
HTTP_400_BAD_REQUEST == 400

\* raise KobocatBulkUpdateSubmissionsClientException(detail=...); in the
\* details a quote stands for the back quote of the source
ClientException(detail) ==
    [exc |-> "KobocatBulkUpdateSubmissionsClientException", detail |-> detail]

\* an exception of another class left the call
Exception(class) == [exc |-> class, detail |-> ""]

\* __validate_bulk_update_payload without its two checks of 'data'
__validate_bulk_update_payload_IdsOnly(p) ==
    IF ~DictHas(p.items, KeySubmissionIds)
    THEN ClientException("'submission_ids' must be included in the payload")
    ELSE IF DictGet(p.items, KeySubmissionIds).t # "list"
    THEN ClientException("'submission_ids' must be an array")
    ELSE IF Len(DictGet(p.items, KeySubmissionIds).elems) = 0
    THEN ClientException("'submission_ids' must contain at least one value")
    ELSE p

\* KobocatDeploymentBackend.__validate_bulk_update_payload: the payload, or
\* the exception raised
__validate_bulk_update_payload(p) ==
    IF ~DictHas(p.items, KeySubmissionIds)
    THEN ClientException("'submission_ids' must be included in the payload")
    ELSE IF DictGet(p.items, KeySubmissionIds).t # "list"
    THEN ClientException("'submission_ids' must be an array")
    ELSE IF Len(DictGet(p.items, KeySubmissionIds).elems) = 0
    THEN ClientException("'submission_ids' must contain at least one value")
    ELSE IF ~DictHas(p.items, KeyData)
    THEN ClientException("'data' must be included in the payload")
    ELSE IF Len(DictGet(p.items, KeyData).items) = 0
    THEN ClientException("Payload must contain data to update the submissions")
    ELSE p

\* a JSON number with a fractional part: whole.tenths
FloatV(whole, tenths) == [t |-> "float", whole |-> whole, tenths |-> tenths]

\* int(x) for one submission id: the int (a float is truncated), or the
\* class of the exception
PyInt(v) ==
    CASE v.t = "int" -> v
      [] v.t = "bool" -> IntV(IF v.b THEN 1 ELSE 0)
      [] v.t = "str" -> IF v.s \in DOMAIN Numerals THEN IntV(Numerals[v.s])
                        ELSE Exception("ValueError")
      [] v.t = "float" -> IntV(v.whole)
      [] OTHER -> Exception("TypeError")

\* list(set(ints)): each value once; small ints come out in ascending order
UniqueInts(ints) ==
    LET S == { ints[i].n : i \in DOMAIN ints }
    IN  SortSeq([i \in 1..Cardinality(S) |->
                    IntV(CHOOSE n \in S :
                            Cardinality({m \in S : m < n}) = i - 1)],
                LAMBDA a, b : a.n < b.n)

\* IsProtected for the names of the protected fields only, not for paths
IsProtected_ExactOnly(k) == k \in PROTECTED_XML_FIELDS

\* whether the sanitizing loop pops the key
IsProtected(k) ==
    \/ k \in PROTECTED_XML_FIELDS
    \/ Contains(k, <<"/">>) /\ SplitSlash(k)[1] \in PROTECTED_XML_FIELDS

\* KobocatDeploymentBackend.__prepare_bulk_update_payload, from the parsed
\* payload on: the sanitized payload (submission_ids, data) or the exception
__prepare_bulk_update_payload(p) ==
    LET validated_payload == __validate_bulk_update_payload(p)
    IN  IF validated_payload # p THEN validated_payload
        ELSE
        LET ids == DictGet(p.items, KeySubmissionIds).elems
            ints == [i \in DOMAIN ids |-> PyInt(ids[i])]
            bad == { i \in DOMAIN ids : "exc" \in DOMAIN ints[i] }
            first_bad == CHOOSE i \in bad : \A j \in bad : i <= j
        IN  IF bad # {}
            THEN IF ints[first_bad].exc = "ValueError"
                 THEN ClientException(
                        "'submission_ids' must only contain integer values")
                 ELSE ints[first_bad]
            ELSE IF ~DictHas(p.items, KeyData) THEN Exception("KeyError")
            ELSE [ submission_ids |-> UniqueInts(ints),
                   data |-> DictV(SelectSeq(DictGet(p.items, KeyData).items,
                                            LAMBDA e : ~IsProtected(e[1]))) ]

\* BaseDeploymentBackend.validate_submission_list_params for the XML format
\* and instance ids only: the defaults of the other parameters, and the
\* filters of the requesting user's partial permissions
validate_submission_list_params(ids, partial_perm_filters) ==
    [ start |-> 0,
      fields |-> <<>>,
      sort |-> DictV(<<>>),
      query |-> DictV(<<>>),
      instance_ids |-> ids,
      permission_filters |-> partial_perm_filters ]

KeyUuid == <<"_uuid">>

KeyMetaInstanceID == <<"meta", "/", "instanceID">>

KeyStart == <<"start">>

KeyEnd == <<"end">>

\* the start and end elements of a submission, each when the form records it
DateElements(row) ==
    (IF DictHas(row.items, KeyStart)
     THEN << Element(KeyStart, DictGet(row.items, KeyStart), <<>>) >>
     ELSE <<>>)
    \o (IF DictHas(row.items, KeyEnd)
        THEN << Element(KeyEnd, DictGet(row.items, KeyEnd), <<>>) >>
        ELSE <<>>)

\* whether the XML of a stored submission has meta/instanceID: it does,
\* unless the stored fields name the uuid and no meta/instanceID
HasInstanceID(row) ==
    DictHas(row.items, KeyUuid) => DictHas(row.items, KeyMetaInstanceID)

\* the ReadOnlyKobocatInstance row of a stored submission, with its XML
KobocatInstance(row) ==
    LET id == DictGet(row.items, KeyId).n
        deleted_at == Lookup(row, KeyDeletedAt)
        edited == DictGet(row.items, KeySubmittedBy) = StrV("anotheruser")
    IN  [ id |-> id,
          xform_id |-> DictGet(row.items, USERFORM_ID),
          deleted_at |-> IF deleted_at.found THEN deleted_at.v ELSE NullV,
          xml |-> Element(<<"form">>, NullV,
                    DateElements(row)
                    \o << Element(<<"q1">>, StrV("a"), <<>>) >>
                    \o (IF edited
                        THEN << Element(<<"group">>, NullV,
                                   << Element(<<"q2">>, StrV("b"), <<>>) >>) >>
                        ELSE <<>>)
                    \o << Element(<<"meta">>, NullV,
                            (IF HasInstanceID(row)
                             THEN << Element(<<"instanceID">>,
                                        Formatted(<<"instance", id>>), <<>>) >>
                             ELSE <<>>)
                            \o (IF edited
                                THEN << Element(<<"deprecatedID">>,
                                           Formatted(<<"before", id>>), <<>>) >>
                                ELSE <<>>)) >>) ]

\* the rows of ReadOnlyKobocatInstance, one per stored submission
KobocatInstances(rows) == [i \in DOMAIN rows |-> KobocatInstance(rows[i])]

\* the queryset of ReadOnlyKobocatInstance filtered on the form, on
\* deleted_at and on the ids, ordered by id: the XML of each instance
QuerysetXml(queryset, uf, ids) ==
    LET ordered == SortSeq(SelectSeq(queryset, LAMBDA inst :
                               /\ inst.xform_id = uf
                               /\ inst.deleted_at = NullV
                               /\ inst.id \in ids),
                           LAMBDA a, b : a.id < b.id)
    IN  ListV([i \in DOMAIN ordered |-> ordered[i].xml])

\* the ids of the documents a Mongo cursor yields
IdsOfCursor(found) ==
    { DictGet(found.cursor.elems[i].items, KeyId).n :
        i \in DOMAIN found.cursor.elems }

\* the XML of the instances whose ids the Mongo cursor yields, in the order
\* of the queryset (by id)
InstancesInXml(rows, uf, found) ==
    QuerysetXml(KobocatInstances(rows), uf, IdsOfCursor(found))

\* __get_submissions_in_xml from the cursor c of MongoHelper on: Raised when
\* the query failed
SubmissionsOfCursor(rows, uf, params, c) ==
    IF c.raised THEN Raised
    ELSE InstancesInXml(rows, uf,
             get_instances(c, params.start, NullV,
                           DictV(<< <<KeyId, IntV(1)>> >>)))

\* KobocatDeploymentBackend.__get_submissions_in_xml(**params): the list of
\* the XML of the instances, or Raised.  With query and permission_filters
\* both None, use_mongo is False and `len(instance_ids)` reads a local that
\* was never bound (UnboundLocalError); with query None alone,
\* _get_cursor_and_count calls update() on None (AttributeError).
__get_submissions_in_xml(rows, uf, params) ==
    IF params.query = NullV /\ params.permission_filters = NullV THEN Raised
    ELSE IF params.query = NullV THEN Raised
    ELSE SubmissionsOfCursor(rows, uf, params,
             _get_cursor_and_count(rows, uf, TRUE, <<KeyId>>, params.query,
                                   params.instance_ids,
                                   params.permission_filters))

\* generate_new_instance_id(): str(uuid.uuid4()) of the n-th call, a value
\* not produced before, and its formatted form
generate_new_instance_id(n) ==
    [ _uuid |-> <<"new", n>>, uuid_formatted |-> Formatted(<<"new", n>>) ]

\* a response of KoBoCAT: status code and body.  The body is an OpenRosa
\* response with a message element ("openrosa"), XML without that element
\* ("xml"), or no XML at all ("text").
Response(status_code, kind, message) ==
    [ t |-> "response", status_code |-> status_code,
      content |-> [kind |-> kind, message |-> message] ]

\* session.send() raised (requests.exceptions.ConnectionError)
ConnectionError == [t |-> "ConnectionError"]

\* how one send to KoBoCAT can end
RemoteOutcomes ==
    { Response(HTTP_201_CREATED, "openrosa", "Successful submission."),
      Response(HTTP_201_CREATED, "text", ""),
      Response(HTTP_201_CREATED, "xml", ""),
      Response(HTTP_400_BAD_REQUEST, "openrosa", "Improperly formatted XML."),
      Response(HTTP_400_BAD_REQUEST, "text", ""),
      Response(500, "text", ""),
      Response(500, "xml", ""),
      ConnectionError }

\* KobocatDeploymentBackend.__prepare_bulk_update_response with the overall
\* status 200 only when no item failed
__prepare_bulk_update_response_AllOrNothing(responses) ==
    LET results == [i \in DOMAIN responses |->
            [ uuid |-> responses[i].uuid,
              status_code |-> responses[i].response.status_code,
              message |->
                  IF responses[i].response.content.kind = "text"
                  THEN "Something went wrong"
                  ELSE responses[i].response.content.message ]]
        total_update_attempts == Len(results)
        total_successes == Cardinality({ i \in DOMAIN results :
                               results[i].status_code = HTTP_201_CREATED })
    IN  IF \E i \in DOMAIN responses : responses[i].response.content.kind = "xml"
        THEN Raised
        ELSE [ status |-> IF total_successes = total_update_attempts
                          THEN HTTP_200_OK ELSE HTTP_400_BAD_REQUEST,
               data |-> [ count |-> total_update_attempts,
                          successes |-> total_successes,
                          failures |-> total_update_attempts - total_successes,
                          results |-> results ] ]

\* KobocatDeploymentBackend.__prepare_bulk_update_response: the dict returned,
\* or Raised when a body is XML without the message element (find() returns
\* None and .text raises AttributeError, which is not caught)
__prepare_bulk_update_response(responses) ==
    LET results == [i \in DOMAIN responses |->
            [ uuid |-> responses[i].uuid,
              status_code |-> responses[i].response.status_code,
              message |->
                  IF responses[i].response.content.kind = "text"
                  THEN "Something went wrong"
                  ELSE responses[i].response.content.message ]]
        total_update_attempts == Len(results)
        total_successes == Cardinality({ i \in DOMAIN results :
                               results[i].status_code = HTTP_201_CREATED })
    IN  IF \E i \in DOMAIN responses : responses[i].response.content.kind = "xml"
        THEN Raised
        ELSE [ status |-> IF total_successes > 0
                          THEN HTTP_200_OK ELSE HTTP_400_BAD_REQUEST,
               data |-> [ count |-> total_update_attempts,
                          successes |-> total_successes,
                          failures |-> total_update_attempts - total_successes,
                          results |-> results ] ]

\* marks a key the payload does not have
Absent == [t |-> "absent"]

\* the values of 'submission_ids' in the payloads received
SubmissionIdsValues ==
    { Absent,
      StrV("1"),
      ListV(<<>>),
      ListV(<<IntV(1)>>),
      ListV(<<IntV(1), IntV(2)>>),
      ListV(<<IntV(3), IntV(2), IntV(3), IntV(1)>>),
      ListV(<<StrV("2"), IntV(4)>>),
      ListV(<<IntV(5), IntV(6)>>),
      ListV(<<IntV(1), StrV("a")>>),
      ListV(<<FloatV(1, 5), IntV(2)>>),
      ListV(<<NullV>>) }

\* the values of 'data' in the payloads received
DataValues ==
    { Absent,
      DictV(<<>>),
      DictV(<< <<<<"q1">>, StrV("x")>> >>),
      DictV(<< <<<<"meta">>, StrV("x")>> >>),
      DictV(<< <<<<"q3">>, StrV("x")>>,
               <<<<"meta", "/", "instanceID">>, StrV("y")>> >>),
      DictV(<< <<<<"group", "/", "q2">>, StrV("y")>> >>),
      DictV(<< <<<<"__version__">>, StrV("v")>>,
               <<<<"meta", "data">>, StrV("m")>>,
               <<<<"formhub", "/", "uuid">>, StrV("u")>>,
               <<<<"q1", "/", "meta">>, StrV("k")>> >>),
      DictV(<< <<<<AnyNamespace, "meta", "/", "instanceID">>,
                 Formatted(<<"chosen", 0>>)>> >>) }

\* the parsed payloads
Payloads ==
    { DictV((IF ids = Absent THEN <<>> ELSE << <<KeySubmissionIds, ids>> >>)
            \o (IF dv = Absent THEN <<>> ELSE << <<KeyData, dv>> >>)) :
        ids \in SubmissionIdsValues, dv \in DataValues }

\* the filters of the requesting user: None with full access, or those of
\* a partial permission
RequesterFilters ==
    { NullV, ListV(<< DictV(<< <<KeySubmittedBy, StrV("someuser")>> >>) >>) }

InitBulk ==
    /\ RaceIdle
    /\ XmlIdle
    /\ CodecIdle
    /\ RemoteIdle
    /\ SafeIdle
    /\ store = StoredRows
    /\ mongo_userform_id = ThisForm
    /\ hide_deleted = TRUE
    /\ query = NoCall
    /\ query0 = NoCall
    /\ instance_ids = <<>>
    /\ permission_filters0 \in RequesterFilters
    /\ permission_filters = permission_filters0
    /\ fields = <<>>
    /\ call = NoCall
    /\ countResult = NoCall
    /\ instances = NoCall
    /\ qpc = "idle"
    /\ payload \in Payloads
    /\ bpc = "start"
    /\ error = NoCall
    /\ fetched = FALSE
    /\ data = NoCall
    /\ submissions = <<>>
    /\ kc_responses = <<>>
    /\ posted = <<>>
    /\ response = NoCall

\* BulkFetched without __validate_bulk_update_submissions
BulkFetched_Unvalidated(prepared, found) ==
    /\ fetched' = TRUE
    /\ data' = prepared.data
    /\ IF found = Raised
       THEN /\ bpc' = "raised"
            /\ error' = Exception("OperationFailure")
            /\ UNCHANGED submissions
       ELSE /\ bpc' = "posting"
            /\ submissions' = found.elems
            /\ UNCHANGED error

\* bulk_update_submissions after __get_submissions_in_xml returned found:
\* __validate_bulk_update_submissions, then the loop is entered
BulkFetched(prepared, found) ==
    /\ fetched' = TRUE
    /\ data' = prepared.data
    /\ IF found = Raised
       THEN /\ bpc' = "raised"
            /\ error' = Exception("OperationFailure")
            /\ UNCHANGED submissions
       ELSE IF Len(found.elems) = 0
       THEN /\ bpc' = "raised"
            /\ error' = ClientException(
                 "No submissions match the given 'submission_ids'")
            /\ UNCHANGED submissions
       ELSE /\ bpc' = "posting"
            /\ submissions' = found.elems
            /\ UNCHANGED error

\* bulk_update_submissions after __prepare_bulk_update_payload returned
\* prepared: its exception leaves the call, otherwise the submissions are
\* fetched
BulkPrepared(prepared) ==
    IF "exc" \in DOMAIN prepared
    THEN /\ bpc' = "raised"
         /\ error' = prepared
         /\ UNCHANGED <<fetched, data, submissions>>
    ELSE BulkFetched(prepared,
             __get_submissions_in_xml(store, mongo_userform_id,
                 validate_submission_list_params(prepared.submission_ids,
                                                 permission_filters)))

\* bulk_update_submissions up to the loop: the payload is prepared, the
\* submissions are fetched and validated
BulkBegin ==
    /\ bpc = "start"
    /\ BulkPrepared(__prepare_bulk_update_payload(payload))
    /\ UNCHANGED <<payload, kc_responses, posted, response>>
    /\ UNCHANGED <<codecVars, queryVars, safeVars, remoteVars>>
    /\ UNCHANGED raceVars
    /\ UNCHANGED xmlVars

\* one turn of `for submission in validated_submissions`: the document is
\* rewritten and sent; a response is appended to kc_responses, an exception
\* of session.send() leaves bulk_update_submissions
PostSubmission ==
    /\ bpc = "posting"
    /\ Len(kc_responses) < Len(submissions)
    /\ LET n == Len(kc_responses) + 1
           new == generate_new_instance_id(n)
           xml == UpdatedSubmission(submissions[n], new.uuid_formatted, data)
       IN  IF xml = Raised
           THEN /\ bpc' = "raised"
                /\ error' = Exception("AttributeError")
                /\ UNCHANGED <<kc_responses, posted>>
           ELSE \E outcome \in RemoteOutcomes :
                /\ posted' = Append(posted, [ uuid |-> new._uuid, xml |-> xml,
                                              outcome |-> outcome ])
                /\ IF outcome = ConnectionError
                   THEN /\ bpc' = "raised"
                        /\ error' = Exception("ConnectionError")
                        /\ UNCHANGED kc_responses
                   ELSE /\ kc_responses' = Append(kc_responses,
                               [uuid |-> new._uuid, response |-> outcome])
                        /\ UNCHANGED <<bpc, error>>
    /\ UNCHANGED <<payload, fetched, data, submissions, response>>
    /\ UNCHANGED <<codecVars, queryVars, safeVars, remoteVars>>
    /\ UNCHANGED raceVars
    /\ UNCHANGED xmlVars

\* return self.__prepare_bulk_update_response(kc_responses)
BulkRespond ==
    /\ bpc = "posting"
    /\ Len(kc_responses) = Len(submissions)
    /\ LET r == __prepare_bulk_update_response(kc_responses)
       IN  IF r = Raised
           THEN /\ bpc' = "raised"
                /\ error' = Exception("AttributeError")
                /\ UNCHANGED response
           ELSE /\ bpc' = "returned"
                /\ response' = r
                /\ UNCHANGED error
    /\ UNCHANGED <<payload, fetched, data, submissions, kc_responses, posted>>
    /\ UNCHANGED <<codecVars, queryVars, safeVars, remoteVars>>
    /\ UNCHANGED raceVars
    /\ UNCHANGED xmlVars

NextBulk == BulkBegin \/ PostSubmission \/ BulkRespond

SpecBulk == InitBulk /\ [][NextBulk]_vars

--------------------------------------------------------------------------
(* C8 .. C10: the bulk update *)

\* the payload lacks 'submission_ids' or has one that is no list or is
\* empty, or lacks 'data' or has an empty one
PayloadInvalid ==
    \/ ~DictHas(payload.items, KeySubmissionIds)
    \/ DictGet(payload.items, KeySubmissionIds).t # "list"
    \/ DictGet(payload.items, KeySubmissionIds).elems = <<>>
    \/ ~DictHas(payload.items, KeyData)
    \/ DictGet(payload.items, KeyData).items = <<>>

\* C8: whenever the payload lacks 'submission_ids', has 'submission_ids'
\* that is no list or an empty list, lacks 'data' or has empty 'data',
\* bulk_update_submissions raises the client exception, no submission has
\* been fetched and nothing has been sent to KoBoCAT.
C8_InvalidPayloadRejected ==
    (bpc \notin {"idle", "start"} /\ PayloadInvalid) =>
        /\ bpc = "raised"
        /\ error.exc = "KobocatBulkUpdateSubmissionsClientException"
        /\ ~fetched
        /\ submissions = <<>>
        /\ posted = <<>>

\* a payload with a list of ids and without 'data' was rejected
C8_Witness ==
    /\ bpc = "raised"
    /\ DictHas(payload.items, KeySubmissionIds)
    /\ DictGet(payload.items, KeySubmissionIds) = ListV(<<IntV(1), IntV(2)>>)
    /\ ~DictHas(payload.items, KeyData)
    /\ error = ClientException("'data' must be included in the payload")
    /\ ~fetched

\* C9: the response of a bulk update has count = the number of documents
\* posted, successes = the number of them KoBoCAT answered with 201,
\* failures = count - successes, one result {uuid, status_code, message} per
\* posted document in the order of posting, and status 200 when successes
\* >= 1, 400 otherwise.
C9_Aggregation ==
    bpc = "returned" =>
        LET d == response.data
            created == { i \in DOMAIN posted :
                           posted[i].outcome.status_code = HTTP_201_CREATED }
        IN  /\ d.count = Len(posted)
            /\ d.successes = Cardinality(created)
            /\ d.failures = d.count - d.successes
            /\ Len(d.results) = Len(posted)
            /\ \A i \in DOMAIN d.results :
                  /\ DOMAIN d.results[i] = {"uuid", "status_code", "message"}
                  /\ d.results[i].uuid = posted[i].uuid
                  /\ d.results[i].status_code = posted[i].outcome.status_code
            /\ response.status = IF d.successes >= 1 THEN HTTP_200_OK
                                 ELSE HTTP_400_BAD_REQUEST

\* one document was accepted and one rejected: successes = 1, failures = 1,
\* status 200
C9_Witness ==
    /\ bpc = "returned"
    /\ Len(posted) = 2
    /\ posted[1].outcome.status_code = HTTP_400_BAD_REQUEST
    /\ posted[2].outcome.status_code = HTTP_201_CREATED
    /\ response.data.successes = 1
    /\ response.data.failures = 1
    /\ response.status = HTTP_200_OK

\* C10: once documents are being posted, a failure of KoBoCAT on one item
\* (the send fails, the status is unexpected, KoBoCAT reports an error) does
\* not end the batch: bulk_update_submissions does not raise, and when it
\* returns every fetched submission was posted and has its result.
C10_NeverAborts ==
    posted # <<>> =>
        /\ bpc # "raised"
        /\ bpc = "returned" =>
              /\ Len(posted) = Len(submissions)
              /\ Len(response.data.results) = Len(submissions)

--------------------------------------------------------------------------
(* RemoteSubmissionGateway: KobocatDeploymentBackend.__kobocat_proxy_request *)

\* settings.ANONYMOUS_USER_ID
ANONYMOUS_USER_ID == -1

\* a user object: pk is None for django's AnonymousUser
User(pk, is_anonymous, username) ==
    [pk |-> pk, is_anonymous |-> is_anonymous, username |-> username]

\* the key of the n-th Token created (Token.generate_key), a value not
\* generated before
generate_key(n) == <<"key", n>>

\* Token.objects.get_or_create(user=user): the row of the user, created
\* when there is none, and the table afterwards
get_or_create(table, user) ==
    IF \E i \in DOMAIN table : table[i][1] = user.pk
    THEN [ token |-> table[CHOOSE i \in DOMAIN table : table[i][1] = user.pk][2],
           created |-> FALSE,
           table |-> table ]
    ELSE [ token |-> generate_key(Len(table) + 1),
           created |-> TRUE,
           table |-> Append(table, <<user.pk, generate_key(Len(table) + 1)>>) ]

\* 'Token %s' % token.key
AuthorizationHeader(token_key) == <<"Authorization", <<"Token", token_key>> >>

\* __kobocat_proxy_request with the header set for every user
__kobocat_proxy_request_AlwaysToken(kc_request, user, table) ==
    [ prepared |-> [kc_request EXCEPT !.headers =
                       Append(@, AuthorizationHeader(
                                     get_or_create(table, user).token))],
      table |-> get_or_create(table, user).table ]

\* KobocatDeploymentBackend.__kobocat_proxy_request up to session.send():
\* the prepared request that is sent, and the Token table afterwards
__kobocat_proxy_request(kc_request, user, table) ==
    IF ~user.is_anonymous /\ user.pk # IntV(ANONYMOUS_USER_ID)
    THEN [ prepared |-> [kc_request EXCEPT !.headers =
                            Append(@, AuthorizationHeader(
                                          get_or_create(table, user).token))],
           table |-> get_or_create(table, user).table ]
    ELSE [ prepared |-> kc_request, table |-> table ]

\* requests.Request(method=..., url=..., files=...)
Request(verb, files) == [method |-> verb, files |-> files, headers |-> <<>>]

--------------------------------------------------------------------------
(* MutationEngine: KobocatDeploymentBackend.duplicate_submission *)

\* str(uuid.uuid4()), the id without the 'uuid:' prefix
Unformatted(u) == [t |-> "str", s |-> u, prefix |-> ""]

\* format_openrosa_datetime(): the time of the call, later than any time
\* stored
date_formatted == StrV("now")

\* StampDates without the turn of the loop for 'end'
StampDates_StartOnly(xml_parsed, date) ==
    IF find(xml_parsed, <<KeyStart>>) # NotFound
    THEN SetText(xml_parsed, find(xml_parsed, <<KeyStart>>), date)
    ELSE xml_parsed

\* the two date fields set one after the other, each only when find()
\* returns an element
StampDates(xml_parsed, date) ==
    LET start == find(xml_parsed, <<KeyStart>>)
        x1 == IF start # NotFound THEN SetText(xml_parsed, start, date)
              ELSE xml_parsed
        end == find(x1, <<KeyEnd>>)
    IN  IF end # NotFound THEN SetText(x1, end, date) ELSE x1

\* DuplicatedSubmission with meta/instanceID left as it was
DuplicatedSubmission_KeepId(xml_parsed, uuid_formatted, date) ==
    IF find(xml_parsed, << <<"meta">>, <<"instanceID">> >>) = NotFound
    THEN Raised
    ELSE StampDates(xml_parsed, date)

\* DuplicatedSubmission with a missing meta/instanceID created under meta
DuplicatedSubmission_CreateMissing(xml_parsed, uuid_formatted, date) ==
    IF find(xml_parsed, << <<"meta">>, <<"instanceID">> >>) = NotFound
    THEN SetText(SubElement(StampDates(xml_parsed, date),
                            find(xml_parsed, << <<"meta">> >>),
                            <<"instanceID">>),
                 find(xml_parsed, << <<"meta">> >>)
                     \o <<Len(ElementAt(xml_parsed,
                                 find(xml_parsed, << <<"meta">> >>)).children) + 1>>,
                 uuid_formatted)
    ELSE SetText(StampDates(xml_parsed, date),
                 find(xml_parsed, << <<"meta">>, <<"instanceID">> >>),
                 uuid_formatted)

\* the document duplicate_submission builds from the source: start and end
\* stamped where present, meta/instanceID overwritten; Raised when
\* meta/instanceID is missing (AttributeError)
DuplicatedSubmission(xml_parsed, uuid_formatted, date) ==
    IF find(xml_parsed, << <<"meta">>, <<"instanceID">> >>) = NotFound
    THEN Raised
    ELSE SetText(StampDates(xml_parsed, date),
                 find(xml_parsed, << <<"meta">>, <<"instanceID">> >>),
                 uuid_formatted)

\* the fields of a document as KoBoCAT stores them: one entry per leaf
\* element, keyed by its '/'-separated path
RECURSIVE XmlItems(_, _)
XmlItems(children, prefix) ==
    IF children = <<>> THEN <<>>
    ELSE LET c == Head(children)
             path == prefix \o c.tag
         IN  (IF c.children = <<>> THEN << <<path, c.text>> >>
              ELSE XmlItems(c.children, path \o <<"/">>))
             \o XmlItems(Tail(children), prefix)

\* the greatest _id stored
MaxId(rows) ==
    CHOOSE n \in { DictGet(rows[i].items, KeyId).n : i \in DOMAIN rows } :
        \A i \in DOMAIN rows : DictGet(rows[i].items, KeyId).n <= n

\* what KoBoCAT stores for a document it answers 201 to: a new submission of
\* this deployment with the next id, submitted by the authenticated user
StoredSubmission(rows, uf, prepared, user) ==
    LET xml == prepared.files.xml
        uuid_formatted ==
            ElementAt(xml, find(xml, << <<"meta">>, <<"instanceID">> >>)).text
    IN  DictV(<< <<KeyId, IntV(MaxId(rows) + 1)>>,
                 <<USERFORM_ID, uf>>,
                 <<KeySubmittedBy, StrV(user.username)>>,
                 <<KeyUuid, Unformatted(uuid_formatted.s)>> >>
              \o XmlItems(xml.children, <<>>))

\* BaseDeploymentBackend.validate_submission_list_params for the JSON format
\* and a query only
validate_submission_list_params_query(q, partial_perm_filters) ==
    [ start |-> 0,
      limit |-> NullV,
      fields |-> <<>>,
      sort |-> DictV(<<>>),
      query |-> q,
      instance_ids |-> <<>>,
      permission_filters |-> partial_perm_filters ]

\* __get_submissions_in_json from the cursor c of MongoHelper on
ReadableInstances(c, params) ==
    IF c.raised THEN Raised
    ELSE LET rows == get_instances(c, params.start, params.limit,
                                   params.sort).cursor.elems
         IN  ListV([i \in DOMAIN rows |-> to_readable_dict(rows[i])])

\* KobocatDeploymentBackend.__get_submissions_in_json(**params): the
\* instances that the generator yields, or Raised
__get_submissions_in_json(rows, uf, params) ==
    ReadableInstances(
        _get_cursor_and_count(rows, uf, TRUE, params.fields, params.query,
                              params.instance_ids, params.permission_filters),
        params)

\* the users that may duplicate a submission
someuser == User(IntV(1), FALSE, "someuser")

anotheruser == User(IntV(2), FALSE, "anotheruser")

\* a submission as the store of a deployed form holds it
Submission(row, dated) ==
    LET id == DictGet(row.items, KeyId).n
    IN  DictV(row.items
              \o (IF dated THEN << <<KeyStart, StrV("2020-01-01")>>,
                                   <<KeyEnd, StrV("2020-01-01")>> >>
                  ELSE <<>>)
              \o << <<KeyUuid, Unformatted(<<"instance", id>>)>>,
                    <<KeyMetaInstanceID, Formatted(<<"instance", id>>)>> >>)

\* a submission whose XML was stored without meta/instanceID
Malformed(row) ==
    LET id == DictGet(row.items, KeyId).n
    IN  DictV(row.items
              \o << <<KeyStart, StrV("2020-01-01")>>,
                    <<KeyEnd, StrV("2020-01-01")>>,
                    <<KeyUuid, Unformatted(<<"instance", id>>)>> >>)

\* a submission of a form that records start and not end
StartOnly(row) ==
    DictV(SelectSeq(Submission(row, TRUE).items, LAMBDA e : e[1] # KeyEnd))

\* the stores duplicate_submission is called on: forms that record start and
\* end, forms that do not, a form that came to record them later, a store
\* whose first submission has no meta/instanceID, and a form that records
\* start only
Stores ==
    { [i \in DOMAIN StoredRows |-> Submission(StoredRows[i], TRUE)],
      [i \in DOMAIN StoredRows |-> StartOnly(StoredRows[i])],
      [i \in DOMAIN StoredRows |-> Submission(StoredRows[i], FALSE)],
      [i \in DOMAIN StoredRows |-> Submission(StoredRows[i], i > 2)],
      [i \in DOMAIN StoredRows |-> IF i = 1 THEN Malformed(StoredRows[i])
                                   ELSE Submission(StoredRows[i], TRUE)] }

\* the ids a caller asks to duplicate: stored or not
MaxInstanceId == 9

\* the rows of Token before the call
TokenTables == { <<>>, << <<someuser.pk, generate_key(1)>> >> }

InitDuplicate ==
    /\ RaceIdle
    /\ XmlIdle
    /\ CodecIdle
    /\ SafeIdle
    /\ BulkIdle
    /\ store \in Stores
    /\ store0 = store
    /\ mongo_userform_id = ThisForm
    /\ hide_deleted = TRUE
    /\ query = NoCall
    /\ query0 = NoCall
    /\ instance_ids = <<>>
    /\ permission_filters0 \in RequesterFilters
    /\ permission_filters = permission_filters0
    /\ fields = <<>>
    /\ call = NoCall
    /\ countResult = NoCall
    /\ instances = NoCall
    /\ qpc = "idle"
    /\ requesting_user \in {someuser, anotheruser}
    /\ source_id \in 1..MaxInstanceId
    /\ dpc = "start"
    /\ duplicate = NoCall
    /\ tokens \in TokenTables
    /\ sent = <<>>
    /\ kc_response = NoCall
    /\ method = NoCall
    /\ gpc = "idle"
    /\ json_response = NoCall

\* duplicate_submission from the rewritten document on: the request is sent
\* through __kobocat_proxy_request; KoBoCAT stores what it answers 201 to
DuplicateSend(proxied) ==
    /\ tokens' = proxied.table
    /\ \E outcome \in RemoteOutcomes :
          /\ sent' = Append(sent, proxied.prepared)
          /\ IF outcome = ConnectionError
             THEN /\ dpc' = "raised"
                  /\ duplicate' = Exception("ConnectionError")
                  /\ UNCHANGED <<kc_response, store>>
             ELSE /\ dpc' = "posted"
                  /\ kc_response' = outcome
                  /\ store' = IF outcome.status_code = HTTP_201_CREATED
                              THEN Append(store,
                                       StoredSubmission(store, mongo_userform_id,
                                           proxied.prepared, requesting_user))
                              ELSE store
                  /\ UNCHANGED duplicate

\* duplicate_submission from the fetched submissions on: next(submissions)
\* is parsed and rewritten
DuplicateFetched(found, new) ==
    IF found = Raised
    THEN /\ dpc' = "raised"
         /\ duplicate' = Exception("OperationFailure")
         /\ UNCHANGED <<tokens, sent, kc_response, store>>
    ELSE IF Len(found.elems) = 0
    THEN /\ dpc' = "raised"
         /\ duplicate' = Exception("StopIteration")
         /\ UNCHANGED <<tokens, sent, kc_response, store>>
    ELSE IF DuplicatedSubmission(found.elems[1], new.uuid_formatted,
                                 date_formatted) = Raised
    THEN /\ dpc' = "raised"
         /\ duplicate' = Exception("AttributeError")
         /\ UNCHANGED <<tokens, sent, kc_response, store>>
    ELSE DuplicateSend(
            __kobocat_proxy_request(
                Request("POST",
                    [ name |-> new._uuid,
                      xml |-> DuplicatedSubmission(found.elems[1],
                                  new.uuid_formatted, date_formatted) ]),
                requesting_user, tokens))

\* duplicate_submission up to the response of KoBoCAT
DuplicateBegin ==
    /\ dpc = "start"
    /\ DuplicateFetched(
          __get_submissions_in_xml(store, mongo_userform_id,
              validate_submission_list_params(<<IntV(source_id)>>,
                                              permission_filters)),
          generate_new_instance_id(1))
    /\ UNCHANGED <<requesting_user, source_id, store0, method, gpc,
                   json_response>>
    /\ UNCHANGED <<mongo_userform_id, hide_deleted, query, query0,
                   instance_ids, permission_filters, permission_filters0,
                   fields, call, countResult, instances, qpc>>
    /\ UNCHANGED <<codecVars, safeVars, bulkVars>>
    /\ UNCHANGED raceVars
    /\ UNCHANGED xmlVars

\* DuplicateQuery asking for the submission that was duplicated
DuplicateQuery_Source(_uuid) == DictV(<< <<KeyId, IntV(source_id)>> >>)

\* the query duplicate_submission fetches the new submission with
DuplicateQuery(_uuid) == DictV(<< <<KeyUuid, Unformatted(_uuid)>> >>)

\* duplicate_submission after the response: next(get_submissions(...)) of
\* the new submission, or KobocatDuplicateSubmissionException
DuplicateRefetched(found) ==
    IF found = Raised
    THEN /\ dpc' = "raised"
         /\ duplicate' = Exception("OperationFailure")
    ELSE IF Len(found.elems) = 0
    THEN /\ dpc' = "raised"
         /\ duplicate' = Exception("StopIteration")
    ELSE /\ dpc' = "returned"
         /\ duplicate' = found.elems[1]

DuplicateEnd ==
    /\ dpc = "posted"
    /\ IF kc_response.status_code = HTTP_201_CREATED
       THEN DuplicateRefetched(
                __get_submissions_in_json(store, mongo_userform_id,
                    validate_submission_list_params_query(
                        DuplicateQuery(sent[Len(sent)].files.name),
                        permission_filters)))
       ELSE /\ dpc' = "raised"
            /\ duplicate' = Exception("KobocatDuplicateSubmissionException")
    /\ UNCHANGED <<requesting_user, source_id, store0, tokens, sent,
                   kc_response, method, gpc, json_response>>
    /\ UNCHANGED <<queryVars, codecVars, safeVars, bulkVars>>
    /\ UNCHANGED raceVars
    /\ UNCHANGED xmlVars

NextDuplicate == DuplicateBegin \/ DuplicateEnd

SpecDuplicate == InitDuplicate /\ [][NextDuplicate]_vars

--------------------------------------------------------------------------
(* RemoteSubmissionGateway: KobocatDeploymentBackend._kobocat_request *)

\* expected_status_codes
expected_status_codes ==
    [m \in {"POST", "PATCH", "DELETE"} |->
        CASE m = "POST" -> 201 [] m = "PATCH" -> 200 [] m = "DELETE" -> 204]

KeyType == <<"type">>

KeyFormid == <<"formid">>

KeyText == <<"text">>

\* key in json_response, for a parsed object or array
JsonHas(json, k) ==
    IF json.t = "dict" THEN DictHas(json.items, k)
    ELSE \E i \in DOMAIN json.elems : json.elems[i] = StrV(k[1])

\* KobocatDeploymentException(detail=...), with the status code the handler
\* answers with
KobocatDeploymentException(detail, status_code) ==
    [ exc |-> "KobocatDeploymentException", detail |-> detail,
      status_code |-> status_code ]

\* str(e) of the exception caught
ErrorText(class) == [kind |-> "error", of |-> class]

\* 'Unexpected KoBoCAT error {}: {}'.format(status_code, content)
UnexpectedError(r) ==
    [ kind |-> "Unexpected KoBoCAT error", status_code |-> r.status_code,
      content |-> r.content ]

\* the status code of an APIException that sets none
HTTP_500_INTERNAL_SERVER_ERROR == 500

\* what _kobocat_request returns
Returned(value) == [t |-> "returned", value |-> value]

\* CheckedResponse that accepts any body once the status is the expected one
CheckedResponse_StatusOnly(verb, r, json) ==
    IF r.status_code # expected_status_codes[verb]
    THEN IF JsonHas(json, KeyText)
         THEN IF json.t # "dict" THEN Exception("TypeError")
              ELSE KobocatDeploymentException(
                       [kind |-> "text", v |-> DictGet(json.items, KeyText)],
                       HTTP_400_BAD_REQUEST)
         ELSE KobocatDeploymentException(UnexpectedError(r),
                                         HTTP_500_INTERNAL_SERVER_ERROR)
    ELSE Returned(json)

\* _kobocat_request from the parsed body on: the check for failure
CheckedResponse(verb, r, json) ==
    IF JsonHas(json, KeyType) /\ json.t # "dict"
       /\ r.status_code = expected_status_codes[verb]
    THEN Exception("TypeError")
    ELSE IF \/ r.status_code # expected_status_codes[verb]
            \/ JsonHas(json, KeyType)
                  /\ DictGet(json.items, KeyType) = StrV("alert-error")
            \/ ~JsonHas(json, KeyFormid)
    THEN IF JsonHas(json, KeyText)
         THEN IF json.t # "dict" THEN Exception("TypeError")
              ELSE KobocatDeploymentException(
                       [kind |-> "text", v |-> DictGet(json.items, KeyText)],
                       HTTP_400_BAD_REQUEST)
         ELSE KobocatDeploymentException(UnexpectedError(r),
                                         HTTP_500_INTERNAL_SERVER_ERROR)
    ELSE Returned(json)

\* _kobocat_request from the end of session.send() on
RequestOutcome(verb, r) ==
    IF r = ConnectionError
    THEN KobocatDeploymentException(ErrorText("ConnectionError"),
                                    HTTP_500_INTERNAL_SERVER_ERROR)
    ELSE IF r.status_code = 204 /\ expected_status_codes[verb] = 204
    THEN Returned(DictV(<<>>))
    ELSE IF r.content.kind # "json"
    THEN KobocatDeploymentException(ErrorText("ValueError"),
                                    HTTP_500_INTERNAL_SERVER_ERROR)
    ELSE CheckedResponse(verb, r, r.content.message)

\* the bodies of KoBoCAT's API: no JSON, an object, or an array of messages
ApiBodies ==
    { [kind |-> "text", message |-> NullV],
      [kind |-> "json", message |-> ListV(<<StrV("Invalid")>>)] }
      \cup { [kind |-> "json", message |-> DictV(t \o f \o x)] :
                t \in { <<>>, << <<KeyType, StrV("alert-error")>> >>,
                        << <<KeyType, StrV("alert-info")>> >> },
                f \in { <<>>, << <<KeyFormid, IntV(1)>> >> },
                x \in { <<>>, << <<KeyText, StrV("reason")>> >> } }

\* the responses of KoBoCAT's API, and the failure to reach it
ApiOutcomes ==
    { [t |-> "response", status_code |-> c, content |-> b] :
         c \in {200, 201, 204, 400, 500}, b \in ApiBodies }
      \cup {ConnectionError}

\* the user objects a request is proxied for: two users, django's
\* AnonymousUser, and the row of the anonymous user
GatewayUsers ==
    { someuser, anotheruser,
      User(NullV, TRUE, ""),
      User(IntV(ANONYMOUS_USER_ID), FALSE, "AnonymousUser") }

\* the requests sent in one run of the model
MaxSends == 2

InitGateway ==
    /\ RaceIdle
    /\ XmlIdle
    /\ CodecIdle
    /\ SafeIdle
    /\ BulkIdle
    /\ QueryIdle
    /\ requesting_user = NoCall
    /\ source_id = NoCall
    /\ store0 = <<>>
    /\ dpc = "idle"
    /\ duplicate = NoCall
    /\ tokens \in TokenTables
    /\ sent = <<>>
    /\ kc_response = NoCall
    /\ method = NoCall
    /\ gpc = "start"
    /\ json_response = NoCall

\* a request proxied for the acting user (as get_enketo_submission_url and
\* the mutation protocols do)
ProxyRequest ==
    /\ Len(sent) < MaxSends
    /\ \E user \in GatewayUsers, verb \in {"GET", "POST"} :
          /\ requesting_user' = user
          /\ method' = verb
          /\ sent' = Append(sent, __kobocat_proxy_request(
                                      Request(verb, NoCall), user, tokens).prepared)
          /\ tokens' = __kobocat_proxy_request(
                           Request(verb, NoCall), user, tokens).table
    /\ \E outcome \in {ConnectionError, [t |-> "response", status_code |-> 200,
                                         content |-> [kind |-> "text",
                                                      message |-> NullV]]} :
          kc_response' = outcome
    /\ gpc' = "start"
    /\ json_response' = NoCall
    /\ UNCHANGED <<source_id, store0, dpc, duplicate>>
    /\ UNCHANGED <<codecVars, queryVars, safeVars, bulkVars>>
    /\ UNCHANGED raceVars
    /\ UNCHANGED xmlVars

\* _kobocat_request(method, url, **kwargs), sent for the owner of the asset
KobocatRequest ==
    /\ Len(sent) < MaxSends
    /\ \E verb \in {"POST", "PATCH", "DELETE", "GET", "PUT"} :
          /\ method' = verb
          /\ IF verb \notin DOMAIN expected_status_codes
             THEN /\ json_response' = Exception("NotImplementedError")
                  /\ gpc' = "raised"
                  /\ UNCHANGED <<requesting_user, sent, tokens, kc_response>>
             ELSE /\ requesting_user' = someuser
                  /\ sent' = Append(sent, __kobocat_proxy_request(
                                  Request(verb, NoCall), someuser, tokens).prepared)
                  /\ tokens' = __kobocat_proxy_request(
                                   Request(verb, NoCall), someuser, tokens).table
                  /\ \E outcome \in ApiOutcomes :
                        /\ kc_response' = outcome
                        /\ json_response' = RequestOutcome(verb, outcome)
                  /\ gpc' = IF "exc" \in DOMAIN json_response' THEN "raised"
                            ELSE "returned"
    /\ UNCHANGED <<source_id, store0, dpc, duplicate>>
    /\ UNCHANGED <<codecVars, queryVars, safeVars, bulkVars>>
    /\ UNCHANGED raceVars
    /\ UNCHANGED xmlVars

NextGateway == ProxyRequest \/ KobocatRequest

SpecGateway == InitGateway /\ [][NextGateway]_vars

--------------------------------------------------------------------------
(* C11, C12: duplicate_submission *)

\* the text of meta/instanceID in a document
InstanceIdOf(xml) ==
    ElementAt(xml, find(xml, << <<"meta">>, <<"instanceID">> >>)).text

\* the submission of the store, as it was before the call, that the caller
\* asked to duplicate
SourceSubmission ==
    store0[CHOOSE i \in DOMAIN store0 :
              DictGet(store0[i].items, KeyId) = IntV(source_id)]

\* C11: the document duplicate_submission posts has meta/instanceID equal to
\* 'uuid:' followed by the freshly generated id, the file part is keyed by
\* that id without the prefix, and the duplicate returned has an instanceID
\* that differs from the instanceID of the source submission.
C11_FreshInstanceId ==
    /\ \A i \in DOMAIN sent :
          /\ sent[i].files.name = generate_new_instance_id(1)._uuid
          /\ InstanceIdOf(sent[i].files.xml) = Formatted(sent[i].files.name)
          /\ InstanceIdOf(sent[i].files.xml).prefix = "uuid:"
          /\ InstanceIdOf(sent[i].files.xml)
                # DictGet(SourceSubmission.items, KeyMetaInstanceID)
    /\ dpc = "returned" =>
          /\ DictGet(duplicate.items, KeyMetaInstanceID)
                = Formatted(sent[1].files.name)
          /\ DictGet(duplicate.items, KeyMetaInstanceID)
                # DictGet(SourceSubmission.items, KeyMetaInstanceID)

C11_Witness ==
    /\ dpc = "returned"
    /\ Len(sent) = 1
    /\ DictHas(SourceSubmission.items, KeyStart)

--------------------------------------------------------------------------
(* C13 *)

\* the first segment of a '/'-separated path: the key up to its first '/'
RootOf(k) ==
    IF \E i \in DOMAIN k : k[i] = "/"
    THEN SubSeq(k, 1, (CHOOSE i \in DOMAIN k :
                          k[i] = "/" /\ \A j \in 1..(i - 1) : k[j] # "/") - 1)
    ELSE k

\* every submission id of the payload is an integer or the numeral of one
IdsAreIntegers ==
    \A i \in DOMAIN DictGet(payload.items, KeySubmissionIds).elems :
        LET id == DictGet(payload.items, KeySubmissionIds).elems[i]
        IN  id.t = "int" \/ (id.t = "str" /\ id.s \in {"1", "2", "3", "5"})

\* C13: the data mapping that bulk_update_submissions applies holds no key
\* that is a protected field or a path rooted at one; such keys of the
\* caller's mapping are dropped without an error, and every other key is
\* kept with its value.
C13_ProtectedKeysDropped ==
    /\ data # NoCall =>
          /\ \A i \in DOMAIN data.items :
                RootOf(data.items[i][1])
                    \notin { <<"__version__">>, <<"formhub">>, <<"meta">> }
          /\ \A i \in DOMAIN DictGet(payload.items, KeyData).items :
                LET e == DictGet(payload.items, KeyData).items[i]
                IN  RootOf(e[1]) \notin
                        { <<"__version__">>, <<"formhub">>, <<"meta">> }
                    => /\ DictHas(data.items, e[1])
                       /\ DictGet(data.items, e[1]) = e[2]
          /\ \A i \in DOMAIN data.items :
                DictHas(DictGet(payload.items, KeyData).items, data.items[i][1])
    /\ (bpc # "start" /\ ~PayloadInvalid /\ IdsAreIntegers) => data # NoCall

C13_Witness ==
    /\ data # NoCall
    /\ Len(data.items) = 2
    /\ Len(DictGet(payload.items, KeyData).items) = 4

--------------------------------------------------------------------------
(* C14 *)

\* the keys of the mapping given that are nested reserved attributes
ReservedKeys ==
    { mapping0.items[i][1] : i \in { j \in DOMAIN mapping0.items :
         \E r \in NESTED_MONGO_RESERVED_ATTRIBUTES :
            StartsWith(mapping0.items[j][1], r \o <<".">>) } }

\* whether d[parts[1]][parts[2]]...[parts[n]] exists and is v
RECURSIVE HoldsAt(_, _, _)
HoldsAt(d, parts, v) ==
    /\ d.t = "dict"
    /\ DictHas(d.items, parts[1])
    /\ IF Len(parts) = 1 THEN DictGet(d.items, parts[1]) = v
       ELSE HoldsAt(DictGet(d.items, parts[1]), Tail(parts), v)

\* C14: to_safe_dict(d, reading=False) removes every key of d of the form
\* '<reserved>.<p1>...<pn>' and, for all such keys of d at once, their values
\* are found at result[reserved][p1]...[pn]; with reading=True these keys
\* and their values are left as they are.
C14_ReservedExpanded ==
    /\ tpc = "safe" =>
          \A k \in ReservedKeys :
              /\ ~DictHas(mapping.items, k)
              /\ HoldsAt(mapping, SplitDots(k), DictGet(mapping0.items, k))
    /\ tpc = "read" =>
          \A k \in ReservedKeys :
              /\ DictHas(mapping.items, k)
              /\ DictGet(mapping.items, k) = DictGet(mapping0.items, k)

--------------------------------------------------------------------------
(* C15, C16: the requests sent to KoBoCAT *)

\* the places of the Authorization headers of a request
AuthorizationOf(r) ==
    { i \in DOMAIN r.headers : r.headers[i][1] = "Authorization" }

\* C15: the request sent last carries an Authorization header if and only
\* if the acting user is not anonymous (is_anonymous false and pk different
\* from ANONYMOUS_USER_ID); the header is 'Token ' followed by the key of
\* the Token row of that user, which exists from then on and is the row of
\* no other user.
C15_TokenOfActingUser ==
    sent # <<>> =>
        LET r == sent[Len(sent)]
            u == requesting_user
        IN  /\ AuthorizationOf(r) # {}
                 <=> (~u.is_anonymous /\ u.pk # IntV(-1))
            /\ AuthorizationOf(r) # {} =>
                  /\ Cardinality(AuthorizationOf(r)) = 1
                  /\ \E j \in DOMAIN tokens :
                        /\ tokens[j][1] = u.pk
                        /\ \A i \in AuthorizationOf(r) :
                              r.headers[i][2] = <<"Token", tokens[j][2]>>
            /\ \A i, j \in DOMAIN tokens :
                  (tokens[i][1] = tokens[j][1] \/ tokens[i][2] = tokens[j][2])
                      => i = j

C15_Witness ==
    /\ Len(sent) = 2
    /\ AuthorizationOf(sent[1]) = {}
    /\ AuthorizationOf(sent[2]) # {}
    /\ requesting_user = anotheruser
    /\ Len(tokens) = 2

\* a response came back and its body is JSON
ParsedBody == kc_response # ConnectionError /\ kc_response.content.kind = "json"

\* the response has the status expected for the verb (POST 201, PATCH 200),
\* and its body has no type 'alert-error' and contains 'formid'
Accepted ==
    /\ ParsedBody
    /\ \/ method = "POST" /\ kc_response.status_code = 201
       \/ method = "PATCH" /\ kc_response.status_code = 200
    /\ kc_response.content.message.t = "dict"
    /\ DictHas(kc_response.content.message.items, <<"formid">>)
    /\ ~ /\ DictHas(kc_response.content.message.items, <<"type">>)
         /\ DictGet(kc_response.content.message.items, <<"type">>)
               = StrV("alert-error")

\* DELETE was answered with 204
Deleted ==
    /\ method = "DELETE"
    /\ kc_response # ConnectionError
    /\ kc_response.status_code = 204

\* the body of the response has a 'text'
RemoteText ==
    /\ ParsedBody
    /\ kc_response.content.message.t = "dict"
    /\ DictHas(kc_response.content.message.items, <<"text">>)

\* KobocatDeploymentException with the remote 'text' and status 400 when
\* 'text' is present, otherwise the generic 'Unexpected KoBoCAT error'
SemanticFailure ==
    /\ "exc" \in DOMAIN json_response
    /\ json_response.exc = "KobocatDeploymentException"
    /\ IF RemoteText
       THEN /\ json_response.status_code = 400
            /\ json_response.detail.kind = "text"
            /\ json_response.detail.v
                  = DictGet(kc_response.content.message.items, <<"text">>)
       ELSE json_response.detail.kind = "Unexpected KoBoCAT error"

\* KobocatDeploymentException with the text of the error caught as detail
WrappedError ==
    /\ "exc" \in DOMAIN json_response
    /\ json_response.exc = "KobocatDeploymentException"
    /\ json_response.detail.kind = "error"

\* a verb other than POST, PATCH, DELETE raises NotImplementedError, and
\* nothing is sent for it
NotImplemented ==
    /\ json_response = [exc |-> "NotImplementedError", detail |-> ""]
    /\ kc_response = NoCall => sent = <<>>

--------------------------------------------------------------------------
(* C17 *)

\* the caller's query without a top-level '_userform_id' of its own (the
\* deployment's scope stands in its place), as the store reads it
CallerPredicates ==
    to_safe_dict(DictV(SelectSeq(query0.items,
                                 LAMBDA e : e[1] # USERFORM_ID)), TRUE)

\* a row has its _id in instance_ids
IdInSet(r) == \E i \in DOMAIN instance_ids : Lookup(r, KeyId).v = instance_ids[i]

\* a row is in the scope of the call: this deployment's, allowed by a
\* permission filter when filters are given, not deleted when hide_deleted
InScope(r) ==
    /\ Lookup(r, USERFORM_ID).v = mongo_userform_id
    /\ permission_filters0 # NullV =>
          \E i \in DOMAIN permission_filters0.elems :
              Matches(r, permission_filters0.elems[i])
    /\ hide_deleted => Matches(r, deleted_at_query)

\* C17: with instance_ids non-empty, the rows matched by get_count and
\* get_instances are exactly the rows in scope that satisfy the caller's
\* whole query, an '_id' predicate of its own included, and have _id in
\* instance_ids.
C17_IdsConjoined ==
    (Answered /\ instance_ids # <<>>) =>
        MatchedRows = { store[j] : j \in { h \in DOMAIN store :
                            /\ InScope(store[h])
                            /\ Matches(store[h], CallerPredicates)
                            /\ IdInSet(store[h]) } }

--------------------------------------------------------------------------
(* C18 .. C20: the bulk update, item by item *)

\* every fetched submission was posted and answered, and
\* bulk_update_submissions has ended
AllAnswered ==
    /\ submissions # <<>>
    /\ Len(kc_responses) = Len(submissions)
    /\ bpc \in {"returned", "raised"}

\* C18: when the OpenRosa message cannot be extracted from the body of an
\* item's response (the body is not XML, or it is XML without the message
\* element), that item gets the generic fallback message and the batch does
\* not fail: __prepare_bulk_update_response always returns the aggregated
\* dict.
C18_FallbackMessage ==
    AllAnswered =>
        /\ bpc = "returned"
        /\ \A i \in DOMAIN kc_responses :
              response.data.results[i].message =
                  IF kc_responses[i].response.content.kind = "openrosa"
                  THEN kc_responses[i].response.content.message
                  ELSE "Something went wrong"

\* the paths of tags that lead from e to an element below it
RECURSIVE Paths(_)
Paths(e) ==
    UNION { {<<e.children[i].tag>>}
              \cup { <<e.children[i].tag>> \o p : p \in Paths(e.children[i]) } :
            i \in DOMAIN e.children }

\* the number of elements a path of tags leads to from the children of e
\* from the i-th on
RECURSIVE CountFrom(_, _, _)
CountFrom(e, parts, i) ==
    IF i > Len(e.children) THEN 0
    ELSE (IF e.children[i].tag # parts[1] THEN 0
          ELSE IF Len(parts) = 1 THEN 1
          ELSE CountFrom(e.children[i], Tail(parts), 1))
         + CountFrom(e, parts, i + 1)

\* the number of elements at a path
CountAt(e, parts) == CountFrom(e, parts, 1)

\* C19: for every document and every key k of the update mapping (a name or
\* a '/'-separated path), an element is created only where one is missing:
\* in the document posted the element at path k has the new value as text,
\* every element of the source is there exactly as many times as before,
\* and each prefix of k has as many elements as in the source when the
\* source has one, and exactly one otherwise.
C19_CreatesOnlyMissing ==
    \A i \in DOMAIN posted :
        /\ \A p \in Paths(submissions[i]) :
              CountAt(posted[i].xml, p) = CountAt(submissions[i], p)
        /\ \A j \in DOMAIN data.items :
              LET parts == SplitSlash(data.items[j][1])
              IN  /\ find(posted[i].xml, parts) # NotFound
                  /\ ElementAt(posted[i].xml, find(posted[i].xml, parts)).text
                        = data.items[j][2]
                  /\ \A n \in 1..Len(parts) :
                        CountAt(posted[i].xml, SubSeq(parts, 1, n)) =
                            IF CountAt(submissions[i], SubSeq(parts, 1, n)) >= 1
                            THEN CountAt(submissions[i], SubSeq(parts, 1, n))
                            ELSE 1

\* the text of the first element at a path, NotFound when there is none
TextAt(e, parts) ==
    IF find(e, parts) = NotFound THEN NotFound
    ELSE ElementAt(e, find(e, parts)).text

\* C20: whatever keys the data mapping has, every document posted has
\* meta/instanceID equal to 'uuid:' plus the fresh id generated for it, which
\* is the id reported as the item's 'uuid', and exactly one
\* meta/deprecatedID, whose text is the instanceID the source document had;
\* the fresh ids of a batch are pairwise distinct.
C20_FreshIdentity ==
    /\ \A i \in DOMAIN posted :
          /\ TextAt(posted[i].xml, << <<"meta">>, <<"instanceID">> >>)
                = Formatted(posted[i].uuid)
          /\ i \in DOMAIN kc_responses => kc_responses[i].uuid = posted[i].uuid
          /\ CountAt(posted[i].xml, << <<"meta">>, <<"deprecatedID">> >>) = 1
          /\ TextAt(posted[i].xml, << <<"meta">>, <<"deprecatedID">> >>)
                = TextAt(submissions[i], << <<"meta">>, <<"instanceID">> >>)
    /\ \A i, j \in DOMAIN posted : i # j => posted[i].uuid # posted[j].uuid

--------------------------------------------------------------------------
(* C21, C22, C30: duplicate_submission *)

\* the XML of the submission the caller asked to duplicate
SourceXml == KobocatInstance(SourceSubmission).xml

\* duplicate_submission fetched the submission asked for
SourceFetched ==
    /\ dpc # "start"
    /\ duplicate # Exception("OperationFailure")
    /\ duplicate # Exception("StopIteration") \/ sent # <<>>

\* C21: when the source document fetched by duplicate_submission has no
\* meta/instanceID element, duplicate_submission fails with an error, no
\* request is sent to KoBoCAT and no submission is created.
C21_MalformedSourceFails ==
    (SourceFetched /\ find(SourceXml, << <<"meta">>, <<"instanceID">> >>) = NotFound)
        => /\ dpc = "raised"
           /\ "exc" \in DOMAIN duplicate
           /\ sent = <<>>
           /\ store = store0

C21_Witness ==
    /\ dpc = "raised"
    /\ source_id = 1
    /\ duplicate = Exception("AttributeError")
    /\ find(SourceXml, << <<"meta">>, <<"instanceID">> >>) = NotFound
    /\ find(SourceXml, << <<"start">> >>) # NotFound

\* a document with the text of the first element at a path taken out
BlankAt(e, parts) ==
    IF find(e, parts) = NotFound THEN e
    ELSE SetText(e, find(e, parts), NullV)

\* a document without the texts of start, end and meta/instanceID
Blanked(e) ==
    BlankAt(BlankAt(BlankAt(e, << <<"start">> >>), << <<"end">> >>),
            << <<"meta">>, <<"instanceID">> >>)

\* C22: in the document duplicate_submission posts, a top-level 'start'
\* (resp. 'end') element exists if and only if the source document has one;
\* when it exists its text is the one timestamp generated for the
\* duplication, the same for both; and every element other than start, end
\* and meta/instanceID is as in the source.
C22_DatesStampedWherePresent ==
    \A i \in DOMAIN sent :
        /\ \A f \in { <<"start">>, <<"end">> } :
              /\ find(sent[i].files.xml, <<f>>) # NotFound
                    <=> find(SourceXml, <<f>>) # NotFound
              /\ find(sent[i].files.xml, <<f>>) # NotFound =>
                    TextAt(sent[i].files.xml, <<f>>) = date_formatted
        /\ Blanked(sent[i].files.xml) = Blanked(SourceXml)

C22_Witness ==
    /\ Len(sent) = 1
    /\ find(SourceXml, << <<"start">> >>) # NotFound
    /\ find(SourceXml, << <<"end">> >>) = NotFound
    /\ TextAt(sent[1].files.xml, << <<"start">> >>) = date_formatted

--------------------------------------------------------------------------
(* C23, C24, C29: bulk_update_submissions before the first request *)

\* the submission ids of the payload
PayloadIds == DictGet(payload.items, KeySubmissionIds).elems

\* a value that is not an integer: not a JSON integer and not the numeral
\* of one
NotAnInteger(v) ==
    /\ v.t # "int"
    /\ ~(v.t = "str" /\ v.s \in DOMAIN Numerals)

\* C23: bulk_update_submissions processes each distinct submission id at
\* most once even when the payload repeats it, and a payload whose
\* submission_ids holds a value that is not an integer (a non-numeric
\* string, a fractional number, null) is rejected with the client error
\* 'must only contain integer values' before any submission is fetched or
\* any request is sent.
C23_UniqueIntegerIds ==
    /\ \A i, j \in DOMAIN submissions :
          i # j => submissions[i] # submissions[j]
    /\ (/\ bpc # "start"
        /\ ~PayloadInvalid
        /\ \E i \in DOMAIN PayloadIds : NotAnInteger(PayloadIds[i]))
       => /\ bpc = "raised"
          /\ error = ClientException(
                "'submission_ids' must only contain integer values")
          /\ ~fetched
          /\ posted = <<>>

\* the integer a valid submission id stands for
IdValue(v) == IF v.t = "int" THEN v.n ELSE Numerals[v.s]

\* a stored submission the caller may see and asked for: of this form, not
\* soft-deleted, allowed by the caller's permission filters, its id among
\* the submission ids
VisibleMatch(row) ==
    /\ Lookup(row, USERFORM_ID).v = mongo_userform_id
    /\ Lookup(row, KeyDeletedAt).found => Lookup(row, KeyDeletedAt).v = NullV
    /\ permission_filters0 # NullV =>
          \E i \in DOMAIN permission_filters0.elems :
              Matches(row, permission_filters0.elems[i])
    /\ \E i \in DOMAIN PayloadIds :
          IdValue(PayloadIds[i]) = Lookup(row, KeyId).v.n

\* C24: when no submission visible to the caller matches the submission
\* ids, bulk_update_submissions raises the client error 'No submissions
\* match the given `submission_ids`' and nothing is sent to KoBoCAT.
C24_NoMatchRejected ==
    (/\ bpc # "start"
     /\ ~PayloadInvalid
     /\ IdsAreIntegers
     /\ \A j \in DOMAIN store : ~VisibleMatch(store[j]))
    => /\ bpc = "raised"
       /\ error = ClientException(
             "No submissions match the given 'submission_ids'")
       /\ posted = <<>>
       /\ kc_responses = <<>>

C24_Witness ==
    /\ bpc = "raised"
    /\ fetched
    /\ posted = <<>>
    /\ permission_filters0 # NullV
    /\ \E j \in DOMAIN store :
          /\ Lookup(store[j], USERFORM_ID).v = mongo_userform_id
          /\ ~Lookup(store[j], KeyDeletedAt).found
          /\ \E i \in DOMAIN PayloadIds :
                IdValue(PayloadIds[i]) = Lookup(store[j], KeyId).v.n
    /\ \A j \in DOMAIN store : ~VisibleMatch(store[j])

--------------------------------------------------------------------------
(* SubmissionStore: KobocatDeploymentBackend.__get_submissions_in_xml *)

\* self.current_submissions_count after __get_submissions_in_xml: the count
\* MongoHelper.get_instances returned; Raised when the call raised
CountOfXml(rows, uf, p) ==
    IF __get_submissions_in_xml(rows, uf, p) = Raised THEN Raised
    ELSE _get_cursor_and_count(rows, uf, TRUE, <<KeyId>>, p.query,
                               p.instance_ids, p.permission_filters).count

\* the keyword arguments __get_submissions_in_xml is called with
XmlParams ==
    [ start : 0..MaxStart,
      limit : {IntV(1), IntV(5)},
      query : {NullV, DictV(<<>>),
               DictV(<< <<KeySubmittedBy, StrV("someuser")>> >>)},
      instance_ids : { <<>>, <<IntV(3), IntV(1), IntV(5), IntV(6)>>,
                       <<IntV(2)>> },
      permission_filters : PermissionFilterLists ]

InitXml ==
    /\ RaceIdle
    /\ CodecIdle
    /\ SafeIdle
    /\ BulkIdle
    /\ RemoteIdle
    /\ store = StoredRows
    /\ mongo_userform_id = ThisForm
    /\ hide_deleted = TRUE
    /\ query = NoCall
    /\ query0 = NoCall
    /\ instance_ids = <<>>
    /\ permission_filters0 = NullV
    /\ permission_filters = NullV
    /\ fields = <<>>
    /\ call = NoCall
    /\ countResult = NoCall
    /\ instances = NoCall
    /\ qpc = "idle"
    /\ xml_params \in XmlParams
    /\ xpc = "start"
    /\ xml_submissions = NoCall
    /\ current_submissions_count = NoCall

\* list(self.__get_submissions_in_xml(**params))
GetSubmissionsInXml ==
    /\ xpc = "start"
    /\ xml_submissions' =
          __get_submissions_in_xml(store, mongo_userform_id, xml_params)
    /\ current_submissions_count' =
          CountOfXml(store, mongo_userform_id, xml_params)
    /\ xpc' = IF xml_submissions' = Raised THEN "raised" ELSE "returned"
    /\ UNCHANGED xml_params
    /\ UNCHANGED <<codecVars, queryVars, safeVars, bulkVars, remoteVars>>
    /\ UNCHANGED raceVars

NextXml == GetSubmissionsInXml

SpecXml == InitXml /\ [][NextXml]_vars

--------------------------------------------------------------------------
(* C25 *)

\* the records of this form that are not soft-deleted and whose id is among
\* the instance ids asked for (all of them when none is asked for), by
\* ascending id
DirectRecords ==
    SortSeq(SelectSeq(KobocatInstances(store), LAMBDA inst :
                /\ inst.xform_id = mongo_userform_id
                /\ inst.deleted_at = NullV
                /\ \/ xml_params.instance_ids = <<>>
                   \/ \E i \in DOMAIN xml_params.instance_ids :
                         xml_params.instance_ids[i] = IntV(inst.id)),
            LAMBDA a, b : a.id < b.id)

\* the documents of soft-deleted records
DeletedXml ==
    { KobocatInstance(store[j]).xml :
        j \in { h \in DOMAIN store :
                  KobocatInstance(store[h]).deleted_at # NullV } }

\* C25: with neither a query nor permission filters (both None),
\* __get_submissions_in_xml resolves the instance ids directly: it returns,
\* by ascending id and within the start/limit window, the XML of exactly the
\* records of this form that are not soft-deleted and whose id is in
\* instance_ids (all when instance_ids is empty), and
\* current_submissions_count is their total number; in both paths no
\* soft-deleted record is returned.
C25_DirectPath ==
    xpc # "start" =>
        /\ (xml_params.query = NullV /\ xml_params.permission_filters = NullV)
             => /\ xpc = "returned"
                /\ xml_submissions.elems =
                      [ i \in 1..(IF Len(DirectRecords) - xml_params.start
                                      < xml_params.limit.n
                                  THEN IF Len(DirectRecords) > xml_params.start
                                       THEN Len(DirectRecords) - xml_params.start
                                       ELSE 0
                                  ELSE xml_params.limit.n)
                          |-> DirectRecords[xml_params.start + i].xml ]
                /\ current_submissions_count = IntV(Len(DirectRecords))
        /\ xpc = "returned" =>
              \A i \in DOMAIN xml_submissions.elems :
                  xml_submissions.elems[i] \notin DeletedXml

--------------------------------------------------------------------------
(* C26 *)

\* C26: whatever list of fields the caller passes to get_instances (empty,
\* with '_userform_id' once, or with it several times), the projection
\* handed to the store never selects '_userform_id': with an empty list it
\* is excluded explicitly, otherwise it is not among the selected fields.
C26_ScopeFieldNotSelected ==
    call # NoCall =>
        IF DictHas(call.projection.items, USERFORM_ID)
        THEN call.projection = DictV(<< <<USERFORM_ID, IntV(0)>> >>)
        ELSE call.projection.items # <<>> =>
                \A i \in DOMAIN call.projection.items :
                    call.projection.items[i][2] = IntV(1)

--------------------------------------------------------------------------
(* Concurrent invocations of bulk_update_submissions and                   *)
(* duplicate_submission on one deployment                                  *)

\* what an invocation was asked: the operation and the submission ids
RaceCalls ==
    { [operation |-> "bulk_update_submissions", ids |-> <<IntV(1)>>],
      [operation |-> "bulk_update_submissions", ids |-> <<IntV(1), IntV(2)>>],
      [operation |-> "duplicate_submission", ids |-> <<IntV(1)>>],
      [operation |-> "duplicate_submission", ids |-> <<IntV(2)>>] }

\* the data mapping of the bulk updates
RaceData == DictV(<< <<<<"q1">>, StrV("x")>> >>)

\* the number of invocations in flight
Invocations == 2

\* what KoBoCAT has after it accepted a document: the instance whose
\* instanceID the document deprecates now has the document as its XML; a
\* document that deprecates no stored instance is stored as a new instance
AcceptedBy(queryset, uf, xml) ==
    LET deprecated == find(xml, << <<"meta">>, <<"deprecatedID">> >>)
        edits == { i \in DOMAIN queryset :
                     /\ deprecated # NotFound
                     /\ find(queryset[i].xml, << <<"meta">>, <<"instanceID">> >>)
                           # NotFound
                     /\ ElementAt(queryset[i].xml,
                            find(queryset[i].xml,
                                 << <<"meta">>, <<"instanceID">> >>)).text
                          = ElementAt(xml, deprecated).text }
    IN  IF edits # {}
        THEN [ i \in DOMAIN queryset |->
                 IF i \in edits THEN [queryset[i] EXCEPT !.xml = xml]
                 ELSE queryset[i] ]
        ELSE Append(queryset,
                    [ id |-> Len(queryset) + 1, xform_id |-> uf,
                      deleted_at |-> NullV, xml |-> xml ])

InitRace ==
    /\ CodecIdle
    /\ SafeIdle
    /\ BulkIdle
    /\ RemoteIdle
    /\ XmlIdle
    /\ store = StoredRows
    /\ mongo_userform_id = ThisForm
    /\ hide_deleted = TRUE
    /\ query = NoCall
    /\ query0 = NoCall
    /\ instance_ids = <<>>
    /\ permission_filters0 = NullV
    /\ permission_filters = NullV
    /\ fields = <<>>
    /\ call = NoCall
    /\ countResult = NoCall
    /\ instances = NoCall
    /\ qpc = "idle"
    /\ kc_instances = KobocatInstances(StoredRows)
    /\ calls \in [1..Invocations -> RaceCalls]
    /\ cpc = [p \in 1..Invocations |-> "start"]
    /\ found_xml = [p \in 1..Invocations |-> <<>>]
    /\ done = [p \in 1..Invocations |-> 0]
    /\ documents = <<>>

\* the documents __get_submissions_in_xml yields now for the ids of the
\* Mongo cursor c
FetchedNow(c) ==
    QuerysetXml(kc_instances, mongo_userform_id,
        IdsOfCursor(get_instances(c, 0, NullV,
                                  DictV(<< <<KeyId, IntV(1)>> >>)))).elems

\* an invocation has fetched these documents
Fetched(p, xmls) ==
    /\ found_xml' = [found_xml EXCEPT ![p] = xmls]
    /\ cpc' = [cpc EXCEPT ![p] = IF xmls = <<>> THEN "done" ELSE "posting"]

\* list(self.__get_submissions_in_xml(**params)) of one invocation
RaceFetch(p) ==
    /\ cpc[p] = "start"
    /\ Fetched(p, FetchedNow(
          _get_cursor_and_count(store, mongo_userform_id, TRUE, <<KeyId>>,
                                DictV(<<>>), calls[p].ids, NullV)))
    /\ UNCHANGED <<kc_instances, calls, done, documents>>
    /\ UNCHANGED <<codecVars, queryVars, safeVars, bulkVars, remoteVars>>
    /\ UNCHANGED xmlVars

\* an invocation has sent this document and KoBoCAT accepted it
Sent(p, new, xml) ==
    /\ documents' = Append(documents, [by |-> p, uuid |-> new._uuid, xml |-> xml])
    /\ kc_instances' = AcceptedBy(kc_instances, mongo_userform_id, xml)
    /\ done' = [done EXCEPT ![p] = @ + 1]
    /\ cpc' = [cpc EXCEPT ![p] = IF done[p] + 1 = Len(found_xml[p])
                                 THEN "done" ELSE "posting"]

\* one document of one invocation is rewritten and posted
RacePost(p) ==
    /\ cpc[p] = "posting"
    /\ IF calls[p].operation = "bulk_update_submissions"
       THEN Sent(p, generate_new_instance_id(Len(documents) + 1),
                 UpdatedSubmission(found_xml[p][done[p] + 1],
                     generate_new_instance_id(Len(documents) + 1).uuid_formatted,
                     RaceData))
       ELSE Sent(p, generate_new_instance_id(Len(documents) + 1),
                 DuplicatedSubmission(found_xml[p][done[p] + 1],
                     generate_new_instance_id(Len(documents) + 1).uuid_formatted,
                     date_formatted))
    /\ UNCHANGED <<calls, found_xml>>
    /\ UNCHANGED <<codecVars, queryVars, safeVars, bulkVars, remoteVars>>
    /\ UNCHANGED xmlVars

NextRace == \E p \in 1..Invocations : RaceFetch(p) \/ RacePost(p)

SpecRace == InitRace /\ [][NextRace]_vars

--------------------------------------------------------------------------
(* C28 *)

\* C28: for every interleaving of two invocations of
\* bulk_update_submissions (or of a bulk update and a duplication) on the
\* same submission, the deprecation chain stays linear without locking:
\* each instance identifier is named as meta/deprecatedID by at most one
\* posted document, and the instanceIDs of the posted documents are pairwise
\* distinct.
C28_LinearChain ==
    \A i, j \in DOMAIN documents :
        i # j =>
            /\ InstanceIdOf(documents[i].xml) # InstanceIdOf(documents[j].xml)
            /\ (/\ find(documents[i].xml, << <<"meta">>, <<"deprecatedID">> >>)
                      # NotFound
                /\ find(documents[j].xml, << <<"meta">>, <<"deprecatedID">> >>)
                      # NotFound)
               => TextAt(documents[i].xml, << <<"meta">>, <<"deprecatedID">> >>)
                    # TextAt(documents[j].xml, << <<"meta">>, <<"deprecatedID">> >>)

--------------------------------------------------------------------------
(* C29 *)

\* C29: bulk_update_submissions posts a document only when the data mapping
\* it applies to the document (the caller's mapping without the protected
\* keys) is not empty; a payload whose effective mapping is empty leads to
\* no request.
C29_EffectiveDataNotEmpty ==
    posted # <<>> => data.items # <<>>

--------------------------------------------------------------------------
(* C30 *)

\* KoBoCAT answered the request of duplicate_submission and the call is over
DuplicateAnswered ==
    /\ dpc \in {"returned", "raised"}
    /\ kc_response # NoCall

==========================================================================
